---- MODULE Spec2Model ----
(***************************************************************************)
(* A model of the timing core of the video subtitle translator:            *)
(*   - AdvancedWordProcessor   (services/advanced_word_processor.py)       *)
(*   - RetryManager            (services/retry_manager.py)                 *)
(*   - UtteranceSegmentator    (services/utterance_segmentation.py)        *)
(*   - AudioSyncManager        (services/audio_sync_manager.py)            *)
(*   - QualityController       (services/quality_control.py)               *)
(*                                                                         *)
(* Times are integers in milliseconds (the code uses float seconds);       *)
(* confidences and scores are integers in thousandths.  A float division   *)
(* becomes the floor division \div, so a quotient is off by less than one  *)
(* unit.  Texts are sequences of one-character strings, so that len(),     *)
(* strip() and the punctuation tests are computed as the code does.        *)
(***************************************************************************)
EXTENDS Integers, Sequences, FiniteSets, TLC

VARIABLES
    \* AdvancedWordProcessor.process_word_level_transcription
    transcript_words,   \* transcript_data['words'] as received
    words,              \* the local list `words` of the pipeline
    blocks,             \* the local list `blocks` of the pipeline
    stage,              \* the position in process_word_level_transcription
    words_per_block,    \* self.words_per_block
    \* RetryManager
    max_retries,        \* self.config.max_retries
    base_delay,         \* self.config.base_delay, in milliseconds
    max_delay,          \* self.config.max_delay, in milliseconds
    exponential_backoff, \* self.config.exponential_backoff
    retry_history,      \* self.retry_history
    calls,              \* the execute_with_retry calls on this manager
    \* UtteranceSegmentator.segment_by_utterances
    transcript_data,    \* the transcript handed in: segments, words, utterances
    utterances,         \* the UtteranceSegment list being built
    segmentation,       \* how far segment_by_utterances has got
    \* AudioSyncManager: analyze_audio_features, calculate_sync_offset,
    \* apply_sync_correction
    audio_path,         \* what is found at the path handed to the analysis
    audio_features,     \* what the audio analysis found
    transcript_segments,\* the segments to synchronise
    sync,               \* position and locals of calculate_sync_offset
    sync_correction,    \* the SyncCorrection returned
    correction,         \* the SyncCorrection handed to apply_sync_correction
    corrected_segments, \* the segments apply_sync_correction returned
    \* QualityController.generate_quality_report
    quality_input,      \* transcript_data and translated_segments handed in
    quality_report,     \* the QualityReport returned, once there is one
    \* SegmentReprocessor.reprocess_low_confidence_segments
    segments_to_reprocess, \* the list `segments` as handed in
    reprocessed_segments,  \* the local list `reprocessed_segments`
    reprocess,          \* position in the loop and confidence_threshold
    \* SubtitleGenerator._align_translation_with_segments
    generator_segments, \* the list `segments` as handed in
    aligned_segments,   \* the list aligned_segments returned
    alignment           \* whether the segments are awaited or aligned

wordVars == <<transcript_words, words, blocks, stage, words_per_block>>

configVars == <<max_retries, base_delay, max_delay, exponential_backoff>>

retryVars == <<configVars, retry_history, calls>>

utteranceVars == <<transcript_data, utterances, segmentation>>

syncVars ==
    <<audio_path, audio_features, transcript_segments, sync, sync_correction,
      correction, corrected_segments>>

qualityVars == <<quality_input, quality_report>>

reprocessVars == <<segments_to_reprocess, reprocessed_segments, reprocess>>

subtitleVars == <<generator_segments, aligned_segments, alignment>>

vars ==
    <<wordVars, retryVars, utteranceVars, syncVars, qualityVars, reprocessVars,
      subtitleVars>>

\* what the steps of one component leave alone
notWordVars ==
    <<retryVars, utteranceVars, syncVars, qualityVars, reprocessVars, subtitleVars>>

notRetryVars ==
    <<wordVars, utteranceVars, syncVars, qualityVars, reprocessVars, subtitleVars>>

notUtteranceVars ==
    <<wordVars, retryVars, syncVars, qualityVars, reprocessVars, subtitleVars>>

notSyncVars ==
    <<wordVars, retryVars, utteranceVars, qualityVars, reprocessVars, subtitleVars>>

notQualityVars ==
    <<wordVars, retryVars, utteranceVars, syncVars, reprocessVars, subtitleVars>>

notSubtitleVars ==
    <<wordVars, retryVars, utteranceVars, syncVars, qualityVars, reprocessVars>>

\* the reprocessor runs execute_with_retry, so its steps leave these alone
notReprocessVars ==
    <<wordVars, utteranceVars, syncVars, qualityVars, subtitleVars>>

-----------------------------------------------------------------------------
(* Small helpers.                                                          *)

Max(a, b) == IF a >= b THEN a ELSE b

Min(a, b) == IF a <= b THEN a ELSE b

Abs(a) == IF a >= 0 THEN a ELSE 0 - a

Last(s) == s[Len(s)]

Front(s) == SubSeq(s, 1, Len(s) - 1)

RECURSIVE SeqsUpTo(_, _)
\* every sequence over S of length 0..n
SeqsUpTo(S, n) ==
    IF n = 0 THEN {<<>>}
    ELSE LET shorter == SeqsUpTo(S, n - 1)
         IN  shorter \cup {Append(s, x) : s \in {t \in shorter : Len(t) = n - 1}, x \in S}

\* str.strip(): drop the leading and trailing blanks of a text
RECURSIVE LStrip(_)
LStrip(t) == IF t # <<>> /\ t[1] = " " THEN LStrip(Tail(t)) ELSE t

RECURSIVE RStrip(_)
RStrip(t) == IF t # <<>> /\ t[Len(t)] = " " THEN RStrip(Front(t)) ELSE t

Strip(t) == RStrip(LStrip(t))

-----------------------------------------------------------------------------
(* AdvancedWordProcessor: configuration.                                   *)

min_word_gap == 20

min_word_duration == 400

block_overlap == 100

\* WordLevelSynchronizer.max_word_duration, the only upper bound on a word's
\* duration in the repository; AdvancedWordProcessor has none
max_word_duration == 2000

\* self.words_per_block (38 unless reconfigured) is drawn from
\* 1..MaxWordsPerBlock, so that short transcripts fill several blocks
MaxWordsPerBlock == 3

SmallOverlap == 50

MediumOverlap == 200

\* '.,!?;:' of _extract_precise_word_timings
WordPunctuation == {".", ",", "!", "?", ";", ":"}

-----------------------------------------------------------------------------
(* The inputs the model draws.                                             *)

\* the longest transcript drawn from the full family of word shapes
MaxWords == 3

\* the longest transcript of evenly spoken words (Scenario D has 7 words)
MaxCleanWords == 7

TxtHi == <<"H", "i">>

TxtThere == <<"t", "h", "e", "r", "e">>

TxtEnd == <<"e", "n", "d", ".">>

\* (text, duration) of an input word: a one/two character word, a short
\* and a long plain word, a long punctuated word, a word held for 2.5 s
WordShapes ==
    { <<TxtHi, 100>>, <<TxtThere, 100>>, <<TxtThere, 600>>, <<TxtEnd, 600>>,
      <<TxtThere, 2500>> }

\* where an input word starts, relative to the end of the word before it:
\* a large, a medium and a small overlap, a gap under min_word_gap, a pause
StartOffsets == {0 - 300, 0 - 100, 0 - 40, 10, 500}

RawWord(text, start, end) ==
    [text |-> text, start |-> start, end |-> end, confidence |-> 900, speaker |-> "A"]

CleanShape == <<TxtThere, 600>>

CleanOffsets == {10, 500}

IsClean(raw) ==
    \A i \in 1..Len(raw) :
        /\ raw[i].text = CleanShape[1]
        /\ raw[i].end - raw[i].start = CleanShape[2]
        /\ i > 1 => (raw[i].start - raw[i - 1].end) \in CleanOffsets

NextWord(raw, sh, off) ==
    IF raw = <<>> THEN RawWord(sh[1], 0, sh[2])
    ELSE RawWord(sh[1], Last(raw).end + off, Last(raw).end + off + sh[2])

\* transcript_data['words'] lists the words in the order they were spoken:
\* a word never starts before the word listed before it.  Up to MaxWords
\* words take any shape and offset; a transcript of evenly spoken words
\* goes on to MaxCleanWords words.
NextRawWords(raw) ==
    IF Len(raw) < MaxWords
    THEN { w \in { NextWord(raw, sh, off) : sh \in WordShapes, off \in StartOffsets } :
             raw # <<>> => w.start >= Last(raw).start }
    ELSE IF Len(raw) < MaxCleanWords /\ IsClean(raw)
    THEN { NextWord(raw, CleanShape, off) : off \in CleanOffsets }
    ELSE {}

-----------------------------------------------------------------------------
(* AdvancedWordProcessor._extract_precise_word_timings                     *)

IsPunctuated(text) == \E i \in 1..Len(text) : text[i] \in WordPunctuation

WordTiming(w, i) ==
    [word |-> Strip(w.text), start |-> w.start, end |-> w.end,
     confidence |-> w.confidence, speaker |-> w.speaker, word_index |-> i,
     duration |-> w.end - w.start, is_punctuated |-> IsPunctuated(w.text)]

RECURSIVE ExtractFrom(_, _)
ExtractFrom(raw, i) ==
    IF i > Len(raw) THEN <<>>
    ELSE LET word == WordTiming(raw[i], i - 1)
         IN  IF word.word # <<>> /\ word.start >= 0 /\ word.end > word.start
             THEN <<word>> \o ExtractFrom(raw, i + 1)
             ELSE ExtractFrom(raw, i + 1)

ExtractPreciseWordTimings(raw) == ExtractFrom(raw, 1)

-----------------------------------------------------------------------------
(* AdvancedWordProcessor._fix_overlapping_segments                         *)

\* a repair that resolves an overlap by dropping the overlapping word
FixOverlapStepDroppingWord(fixed, word) ==
    IF fixed = <<>> THEN <<word>>
    ELSE IF word.start < Last(fixed).end THEN fixed
    ELSE Append(fixed, word)

\* one iteration of the loop: `fixed` is fixed_words, `word` the next word
FixOverlapStep(fixed, word) ==
    IF fixed = <<>> THEN <<word>>
    ELSE
      LET prev == Last(fixed)
          overlap_duration == prev.end - word.start
      IN
      IF ~(word.start < prev.end) THEN Append(fixed, word)
      ELSE IF overlap_duration <= SmallOverlap THEN
        LET s == prev.end + min_word_gap
        IN  Append(fixed, [word EXCEPT !.start = s, !.duration = word.end - s])
      ELSE IF overlap_duration <= MediumOverlap THEN
        LET pe == prev.end - (overlap_duration \div 2)
            s  == pe + min_word_gap
        IN  Append([fixed EXCEPT ![Len(fixed)].end = pe],
                   [word EXCEPT !.start = s, !.duration = word.end - s])
      ELSE
        LET total_duration == word.end - prev.start
            prev_duration  == prev.end - prev.start
            denominator    == overlap_duration + prev_duration + (word.end - word.start)
            pe == prev.start + ((total_duration * prev_duration) \div denominator)
            s  == pe + min_word_gap
        IN  Append([fixed EXCEPT ![Len(fixed)].end = pe],
                   [word EXCEPT !.start = s, !.duration = word.end - s])

RECURSIVE FixOverlapLoop(_, _, _)
FixOverlapLoop(ws, i, fixed) ==
    IF i > Len(ws) THEN fixed
    ELSE FixOverlapLoop(ws, i + 1, FixOverlapStep(fixed, ws[i]))

FixOverlappingSegments(ws) ==
    IF Len(ws) <= 1 THEN ws ELSE FixOverlapLoop(ws, 1, <<>>)

-----------------------------------------------------------------------------
(* AdvancedWordProcessor._add_minimum_word_gaps                            *)

AddGapStep(gapped, word) ==
    IF gapped = <<>> THEN <<word>>
    ELSE
      LET prev == Last(gapped)
          current_gap == word.start - prev.end
      IN
      IF current_gap < min_word_gap THEN
        LET s == prev.end + min_word_gap
            original_duration == word.end - word.start
        IN  Append(gapped, [word EXCEPT !.start = s,
                                        !.end = s + original_duration,
                                        !.duration = original_duration])
      ELSE Append(gapped, word)

RECURSIVE AddGapLoop(_, _, _)
AddGapLoop(ws, i, gapped) ==
    IF i > Len(ws) THEN gapped
    ELSE AddGapLoop(ws, i + 1, AddGapStep(gapped, ws[i]))

AddMinimumWordGaps(ws) ==
    IF Len(ws) <= 1 THEN ws ELSE AddGapLoop(ws, 1, <<>>)

-----------------------------------------------------------------------------
(* AdvancedWordProcessor._apply_minimum_display_duration                   *)

ExtendWord(word) ==
    LET current_duration == word.end - word.start
        needs_extension ==
            \/ current_duration < min_word_duration
            \/ Len(word.word) <= 2
            \/ word.is_punctuated
        new_duration ==
            IF Len(word.word) <= 2 THEN min_word_duration
            ELSE IF word.is_punctuated
                 THEN Max(min_word_duration, (current_duration * 3) \div 2)
                 ELSE min_word_duration
    IN  IF needs_extension
        THEN [word EXCEPT !.end = word.start + new_duration, !.duration = new_duration]
        ELSE word

ApplyMinimumDisplayDuration(ws) == [i \in 1..Len(ws) |-> ExtendWord(ws[i])]

\* steps 2, 3 and 5 of process_word_level_transcription (no audio file)
Repair(ws) ==
    ApplyMinimumDisplayDuration(AddMinimumWordGaps(FixOverlappingSegments(ws)))

-----------------------------------------------------------------------------
(* process_word_level_transcription, one action per numbered step.         *)

\* the state of the components a specification does not run
IdleWords ==
    /\ transcript_words = <<>>
    /\ words = <<>>
    /\ blocks = <<>>
    /\ stage = "idle"
    /\ words_per_block = 1

IdleRetry ==
    /\ max_retries = 0
    /\ base_delay = 1000
    /\ max_delay = 30000
    /\ exponential_backoff = TRUE
    /\ retry_history = <<>>
    /\ calls = <<>>

IdleUtterance ==
    /\ transcript_data = [segments |-> <<>>, words |-> <<>>, utterances |-> <<>>]
    /\ utterances = <<>>
    /\ segmentation = "idle"

\* SyncCorrection(offset_seconds, confidence, method, segments_adjusted)
SyncCorrection(offset_seconds, confidence, method, segments_adjusted) ==
    [offset_seconds |-> offset_seconds, confidence |-> confidence,
     method |-> method, segments_adjusted |-> segments_adjusted]

NoAudio == [energy_profile |-> 0, speech_segments |-> 0, onsets |-> <<>>, beat_frames |-> 0]

IdleSync ==
    /\ audio_path = "ok"
    /\ correction = SyncCorrection(0, 0, "none", 0)
    /\ corrected_segments = <<>>
    /\ audio_features = NoAudio
    /\ transcript_segments = <<>>
    /\ sync = [pc |-> "idle", best_offset |-> 0, best_confidence |-> 0, method |-> "none",
               candidates |-> <<>>]
    /\ sync_correction = SyncCorrection(0, 0, "none", 0)

NoReport == [produced |-> FALSE]

IdleQuality ==
    /\ quality_input = [transcript_data |-> [confidence |-> 0, segments |-> <<>>],
                        translated_segments |-> <<>>]
    /\ quality_report = NoReport

IdleReprocess ==
    /\ segments_to_reprocess = <<>>
    /\ reprocessed_segments = <<>>
    /\ reprocess = [pc |-> "idle", confidence_threshold |-> 0]

IdleSubtitles ==
    /\ generator_segments = <<>>
    /\ aligned_segments = <<>>
    /\ alignment = "idle"

InitWords ==
    /\ IdleRetry
    /\ IdleUtterance
    /\ IdleSync
    /\ IdleQuality
    /\ IdleReprocess
    /\ IdleSubtitles
    /\ transcript_words = <<>>
    /\ words = <<>>
    /\ blocks = <<>>
    /\ stage = "receiving"
    /\ words_per_block \in 1..MaxWordsPerBlock

\* the transcription collaborator delivers the next word of the transcript
ReceiveWord ==
    /\ stage = "receiving"
    /\ \E w \in NextRawWords(transcript_words) :
           transcript_words' = Append(transcript_words, w)
    /\ UNCHANGED <<words, blocks, stage, words_per_block, notWordVars>>

ExtractWords ==
    /\ stage = "receiving"
    /\ transcript_words # <<>>
    /\ words' = ExtractPreciseWordTimings(transcript_words)
    /\ stage' = IF words' = <<>> THEN "returned" ELSE "extracted"
    /\ UNCHANGED <<transcript_words, blocks, words_per_block, notWordVars>>

FixOverlaps ==
    /\ stage = "extracted"
    /\ words' = FixOverlappingSegments(words)
    /\ stage' = "fixed"
    /\ UNCHANGED <<transcript_words, blocks, words_per_block, notWordVars>>

AddGaps ==
    /\ stage = "fixed"
    /\ words' = AddMinimumWordGaps(words)
    /\ stage' = "gapped"
    /\ UNCHANGED <<transcript_words, blocks, words_per_block, notWordVars>>

ApplyMinimumDuration ==
    /\ stage = "gapped"
    /\ words' = ApplyMinimumDisplayDuration(words)
    /\ stage' = "repaired"
    /\ UNCHANGED <<transcript_words, blocks, words_per_block, notWordVars>>

-----------------------------------------------------------------------------
(* AdvancedWordProcessor._stabilize_blocks_with_overlap                    *)

RECURSIVE SumConfidence(_)
SumConfidence(ws) == IF ws = <<>> THEN 0 ELSE ws[1].confidence + SumConfidence(Tail(ws))

\* np.mean(confidences)
MeanConfidence(ws) == SumConfidence(ws) \div Len(ws)

SpeakerCount(ws, sp) == Cardinality({i \in 1..Len(ws) : ws[i].speaker = sp})

\* max(set(speakers), key=speakers.count): one of the most frequent speakers
DominantSpeaker(ws) ==
    CHOOSE sp \in {ws[i].speaker : i \in 1..Len(ws)} :
        \A i \in 1..Len(ws) : SpeakerCount(ws, sp) >= SpeakerCount(ws, ws[i].speaker)

\* a slice that runs one word too far: words[i:i + self.words_per_block + 1]
BlockWordsOneTooMany(ws, i) == SubSeq(ws, i + 1, Min(i + words_per_block + 1, Len(ws)))

\* words[i:i + self.words_per_block], i counted from 0
BlockWords(ws, i) == SubSeq(ws, i + 1, Min(i + words_per_block, Len(ws)))

\* one iteration of `for i in range(0, len(words), self.words_per_block)`
StabilizeStep(ws, i, bs) ==
    LET block_words == BlockWords(ws, i)
        block_start == block_words[1].start
        block_end   == Last(block_words).end
        display_start ==
            IF bs # <<>> THEN Max(block_start - block_overlap, Last(bs).display_start)
            ELSE block_start
        display_end ==
            IF i + words_per_block < Len(ws) THEN block_end + block_overlap ELSE block_end
        updated ==
            IF bs # <<>>
            THEN [bs EXCEPT ![Len(bs)].display_end =
                     Min(Last(bs).display_end + block_overlap, block_start + block_overlap)]
            ELSE bs
    IN  Append(updated,
               [block_id |-> Len(bs), words |-> block_words,
                start_time |-> block_start, end_time |-> block_end,
                display_start |-> display_start, display_end |-> display_end,
                speaker |-> DominantSpeaker(block_words),
                confidence |-> MeanConfidence(block_words),
                word_count |-> Len(block_words)])

RECURSIVE StabilizeLoop(_, _, _)
StabilizeLoop(ws, i, bs) ==
    IF i >= Len(ws) THEN bs
    ELSE StabilizeLoop(ws, i + words_per_block, StabilizeStep(ws, i, bs))

StabilizeBlocksWithOverlap(ws) == IF ws = <<>> THEN <<>> ELSE StabilizeLoop(ws, 0, <<>>)

-----------------------------------------------------------------------------
(* AdvancedWordProcessor._final_optimization_and_validation                *)

RECURSIVE ValidWords(_)
ValidWords(ws) ==
    IF ws = <<>> THEN <<>>
    ELSE IF ws[1].start >= 0 /\ ws[1].end > ws[1].start /\ Strip(ws[1].word) # <<>>
         THEN <<ws[1]>> \o ValidWords(Tail(ws))
         ELSE ValidWords(Tail(ws))

RECURSIVE ValidateBlocks(_)
\* the first loop: keep the blocks with a valid display span and a valid word
ValidateBlocks(bs) ==
    IF bs = <<>> THEN <<>>
    ELSE LET block == bs[1]
             valid_words == ValidWords(block.words)
         IN  IF block.display_start >= 0 /\ block.display_end > block.display_start
                /\ valid_words # <<>>
             THEN <<[block EXCEPT !.words = valid_words,
                                  !.start_time = valid_words[1].start,
                                  !.end_time = Last(valid_words).end,
                                  !.word_count = Len(valid_words)]>>
                  \o ValidateBlocks(Tail(bs))
             ELSE ValidateBlocks(Tail(bs))

\* the second loop left out: no display_end is cut
ClampDisplayEndsSkipped(bs) == bs

\* the second loop: display_end of a block is cut to the next block's
\* display_start + block_overlap (display_start is never written, so the
\* in-place loop reads the values it would read in any order)
ClampDisplayEnds(bs) ==
    [i \in 1..Len(bs) |->
        IF i < Len(bs) /\ bs[i].display_end > bs[i + 1].display_start + block_overlap
        THEN [bs[i] EXCEPT !.display_end = bs[i + 1].display_start + block_overlap]
        ELSE bs[i]]

FinalOptimizationAndValidation(bs) == ClampDisplayEnds(ValidateBlocks(bs))

-----------------------------------------------------------------------------
(* process_word_level_transcription, steps 6 and 7.                        *)

StabilizeBlocks ==
    /\ stage = "repaired"
    /\ blocks' = StabilizeBlocksWithOverlap(words)
    /\ stage' = "stabilized"
    /\ UNCHANGED <<transcript_words, words, words_per_block, notWordVars>>

FinalOptimize ==
    /\ stage = "stabilized"
    /\ blocks' = FinalOptimizationAndValidation(blocks)
    /\ stage' = "returned"
    /\ UNCHANGED <<transcript_words, words, words_per_block, notWordVars>>

NextWords ==
    \/ ReceiveWord
    \/ ExtractWords
    \/ FixOverlaps
    \/ AddGaps
    \/ ApplyMinimumDuration
    \/ StabilizeBlocks
    \/ FinalOptimize

SpecWords == InitWords /\ [][NextWords]_vars

\* two-word transcripts "Hi", "there": how long each word is spoken, and by
\* how much the second starts before the first ends (Scenario A: 0.55 s,
\* 0.45 s, 0.1 s)
PairDurations == {450, 550}

PairOverlaps == {0, 40, 100, 150, 300}

\* the transcription collaborator delivers a transcript of two words
ReceivePair ==
    /\ stage = "receiving"
    /\ transcript_words = <<>>
    /\ \E d1, d2 \in PairDurations, overlap \in PairOverlaps :
           transcript_words' = << RawWord(TxtHi, 0, d1),
                                  RawWord(TxtThere, d1 - overlap, d1 - overlap + d2) >>
    /\ UNCHANGED <<words, blocks, stage, words_per_block, notWordVars>>

NextPairs ==
    \/ ReceivePair
    \/ ExtractWords
    \/ FixOverlaps
    \/ AddGaps
    \/ ApplyMinimumDuration
    \/ StabilizeBlocks
    \/ FinalOptimize

SpecPairs == InitWords /\ [][NextPairs]_vars

-----------------------------------------------------------------------------
(* Claims about the word pipeline, checked under SpecWords.                *)

\* the normalizer (steps 2, 3 and 5) has returned its token sequence
Repaired == stage \in {"repaired", "stabilized", "returned"} /\ words # <<>>

\* process_word_level_transcription has returned the blocks of a transcript
BlocksReturned == stage = "returned" /\ words # <<>>

GapsKept(ws) == \A i \in 1..(Len(ws) - 1) : ws[i].end + min_word_gap <= ws[i + 1].start

\* C1: in every token sequence the normalizer returns, every adjacent pair
\* satisfies tokens[i].end + min_gap <= tokens[i+1].start.
C1_GapAfterRepair == Repaired => GapsKept(words)

\* C2: repair is idempotent: running the normalizer on its own output
\* returns the same token sequence, repair(repair(x)) = repair(x).
C2_RepairIdempotent == Repaired => Repair(words) = words

\* C7: for the blocks the stabilizer returns (after the final validation),
\* block[i].display_end <= block[i+1].display_start + overlap for every
\* consecutive pair.
C7_DisplayEndWithinOverlap ==
    BlocksReturned =>
        \A i \in 1..(Len(blocks) - 1) :
            blocks[i].display_end <= blocks[i + 1].display_start + block_overlap

\* C7 witness: three blocks were returned and the final pass had to cut the
\* display_end of one that has a block before and after it.
C7_ClampActed ==
    /\ BlocksReturned
    /\ Len(blocks) >= 3
    /\ LET built == ValidateBlocks(StabilizeBlocksWithOverlap(words))
       IN  built[2].display_end > built[3].display_start + block_overlap

RECURSIVE ConcatBlockWords(_)
ConcatBlockWords(bs) ==
    IF bs = <<>> THEN <<>> ELSE bs[1].words \o ConcatBlockWords(Tail(bs))

BlockSizes(bs) == [i \in 1..Len(bs) |-> Len(bs[i].words)]

C11_DurationsWithinBounds ==
    Repaired =>
        \A i \in 1..Len(words) :
            /\ min_word_duration <= words[i].end - words[i].start
            /\ words[i].end - words[i].start <= max_word_duration

WordsOfTranscript(raw) == [i \in 1..Len(raw) |-> Strip(raw[i].text)]

WordsOf(ws) == [i \in 1..Len(ws) |-> ws[i].word]

StartsNonDecreasing(ws) == \A i \in 1..(Len(ws) - 1) : ws[i].start <= ws[i + 1].start

C28_DisplaySpanOfBlocks ==
    /\ stage = "stabilized" =>
          \A i \in 1..Len(blocks) :
              /\ blocks[i].display_start =
                    IF i = 1 THEN blocks[i].start_time
                    ELSE Max(blocks[i].start_time - block_overlap,
                             blocks[i - 1].display_start)
              /\ blocks[i].display_end =
                    IF i < Len(blocks) THEN blocks[i].end_time + block_overlap
                    ELSE blocks[i].end_time
    /\ BlocksReturned =>
          \A i \in 1..Len(blocks) :
              blocks[i].display_end <= blocks[i].end_time + block_overlap

\* Scenario A: ("Hi", 0.0, 0.55, 0.9), ("there", 0.45, 0.9, 0.9)
ScenarioA == << RawWord(TxtHi, 0, 550), RawWord(TxtThere, 450, 900) >>

\* the overlaps have been repaired
OverlapsFixed == stage \in {"fixed", "gapped", "repaired", "stabilized", "returned"}

\* C22: with the tokens of Scenario A and min_gap 0.02 the repaired second
\* token starts at 0.57 and keeps its 0.45 s: it ends at 1.02.
C22_ScenarioA ==
    (transcript_words = ScenarioA /\ OverlapsFixed) =>
        /\ Len(words) = 2
        /\ words[2].start = 570
        /\ words[2].end = 1020

-----------------------------------------------------------------------------
(* RetryManager: results of the wrapped operations and their acceptance.   *)

confidence_threshold == 700

NoneResult == [type |-> "None"]

StrResult(t) == [type |-> "str", text |-> t]

DictResult(keys, conf, nseg) ==
    [type |-> "dict", keys |-> keys, confidence |-> conf, segments |-> nseg]

TxtOk == <<"o", "k">>

TxtHej == <<"h", "e", "j">>

TxtBlank == <<" ", " ", " ">>

RequiredFields == {"text", "segments", "confidence"}

\* what an operation of the given name may hand back when it returns
Results(operation_name) ==
    IF operation_name = "transcription"
    THEN { NoneResult,
           DictResult({"text", "confidence"}, 900, 0),
           DictResult(RequiredFields, 600, 2),
           DictResult(RequiredFields, 900, 0),
           DictResult(RequiredFields, 900, 2) }
    ELSE { NoneResult, StrResult(TxtBlank), StrResult(TxtOk), StrResult(TxtHej) }

OperationNames == {"transcription", "translation", "segment_retranslation"}

\* _validate_transcription_result
ValidateTranscriptionResult(result) ==
    IF result.type # "dict" THEN FALSE
    ELSE IF ~(RequiredFields \subseteq result.keys) THEN FALSE
    ELSE IF result.confidence < confidence_threshold THEN FALSE
    ELSE IF result.segments = 0 THEN FALSE
    ELSE TRUE

\* _validate_translation_result
ValidateTranslationResult(result) ==
    IF result.type # "str" THEN FALSE
    ELSE IF Strip(result.text) = <<>> THEN FALSE
    ELSE IF Len(Strip(result.text)) < 3 THEN FALSE
    ELSE TRUE

HasArrow(t) ==
    \E i \in 1..(Len(t) - 2) : t[i] = "-" /\ t[i + 1] = "-" /\ t[i + 2] = ">"

\* _validate_subtitle_result
ValidateSubtitleResult(result) ==
    IF result.type # "str" THEN FALSE
    ELSE IF Strip(result.text) = <<>> THEN FALSE
    ELSE IF ~HasArrow(result.text) THEN FALSE
    ELSE TRUE

\* _validate_result_quality
ValidateResultQuality(result, operation_name) ==
    IF result = NoneResult THEN FALSE
    ELSE IF operation_name = "transcription" THEN ValidateTranscriptionResult(result)
    ELSE IF operation_name = "translation" THEN ValidateTranslationResult(result)
    ELSE IF operation_name = "subtitle_generation" THEN ValidateSubtitleResult(result)
    ELSE TRUE

-----------------------------------------------------------------------------
(* RetryManager: the history records.  The wall-clock fields of a record   *)
(* (timestamp, execution_time) are left out: nothing reads them back.      *)

\* _record_successful_attempt
SuccessRecord(operation, retry_count) ==
    [operation |-> operation, status |-> "success", retry_count |-> retry_count]

\* a record that numbers the attempt by the loop index
FailedAttemptRecordOfLoopIndex(operation, error, attempt) ==
    [operation |-> operation, status |-> "failed_attempt", error |-> error,
     attempt |-> attempt - 1]

\* _record_failed_attempt
FailedAttemptRecord(operation, error, attempt) ==
    [operation |-> operation, status |-> "failed_attempt", error |-> error,
     attempt |-> attempt]

FinalFailureRecordOfRetries(operation, error, total_attempts) ==
    [operation |-> operation, status |-> "final_failure", error |-> error,
     total_attempts |-> total_attempts - 1]

\* _record_final_failure
FinalFailureRecord(operation, error, total_attempts) ==
    [operation |-> operation, status |-> "final_failure", error |-> error,
     total_attempts |-> total_attempts]

\* str(e) of the exception raised for a rejected result, and of one the
\* operation itself raises
QualityError(operation_name) == [message |-> "quality", operation |-> operation_name]

OperationError == [message |-> "api_error", operation |-> "-"]

NoException == [message |-> "None", operation |-> "-"]

\* the exception raised once every attempt has failed
ExhaustedError(operation_name, retry_count, last_exception) ==
    [raised |-> TRUE, operation |-> operation_name, retry_count |-> retry_count,
     cause |-> last_exception]

\* the tuple (result, retry_count) returned after a success
Returned(result, retry_count) ==
    [raised |-> FALSE, result |-> result, retry_count |-> retry_count]

NotFinished == [raised |-> FALSE, result |-> NoneResult, retry_count |-> 0 - 1]

-----------------------------------------------------------------------------
(* RetryManager.execute_with_retry, one call per element of `calls`.  A    *)
(* call is suspended while it awaits the operation (ATTEMPTING) and while  *)
(* it sleeps before the next attempt (RETRY_WAIT); what runs between two   *)
(* suspension points is one step.                                          *)

\* the most retries a configuration allows
MaxRetries == 2

\* RetryConfig defaults, in milliseconds
DefaultBaseDelay == 1000
DefaultMaxDelay == 30000

\* the (base_delay, max_delay, exponential_backoff) a manager is built with:
\* the defaults, a cap the doubling reaches, and a base above the cap
BackoffConfigs ==
    { <<DefaultBaseDelay, DefaultMaxDelay, TRUE>>,
      <<DefaultBaseDelay, 1500, TRUE>>,
      <<DefaultBaseDelay, 1500, FALSE>>,
      <<20000, 1500, FALSE>> }

RECURSIVE Pow2(_)
Pow2(n) == IF n = 0 THEN 1 ELSE 2 * Pow2(n - 1)

CalculateRetryDelayUncapped(attempt) ==
    IF exponential_backoff THEN base_delay * Pow2(attempt) ELSE base_delay

\* RetryManager._calculate_retry_delay
CalculateRetryDelay(attempt) ==
    LET delay == IF exponential_backoff THEN base_delay * Pow2(attempt) ELSE base_delay
    IN  Min(delay, max_delay)

\* the execute_with_retry calls made on one manager, in the order made
CallIds == {1, 2}

InitRetry ==
    /\ IdleWords
    /\ IdleUtterance
    /\ IdleSync
    /\ IdleQuality
    /\ IdleReprocess
    /\ IdleSubtitles
    /\ max_retries \in 0..MaxRetries
    /\ base_delay = DefaultBaseDelay
    /\ max_delay = DefaultMaxDelay
    /\ exponential_backoff = TRUE
    /\ retry_history = <<>>
    /\ calls = <<>>

\* lines 68-77: the call is made and awaits its first attempt
StartCall(operation_name) ==
    /\ Len(calls) + 1 \in CallIds
    /\ calls' = Append(calls, [pc |-> "ATTEMPTING", operation_name |-> operation_name,
                               attempt |-> 0, retry_count |-> 0,
                               last_exception |-> NoException,
                               outcome |-> NotFinished, delay |-> 0, waits |-> 0])
    /\ UNCHANGED <<configVars, retry_history, notRetryVars>>

RetryCountNotAdvanced(call) == call.retry_count

\* line 93: retry_count += 1
NextRetryCount(call) == call.retry_count + 1

HandleFailureRecordingTwice(c, e) ==
    LET call == calls[c]
        retry_count == NextRetryCount(call)
        failed == Append(retry_history,
                    FailedAttemptRecord(call.operation_name, e, call.attempt + 1))
    IN  IF call.attempt < max_retries
        THEN /\ retry_history' = failed
             /\ calls' = [calls EXCEPT ![c].pc = "RETRY_WAIT",
                                       ![c].last_exception = e,
                                       ![c].retry_count = retry_count,
                                       ![c].delay = CalculateRetryDelay(call.attempt),
                                       ![c].waits = call.waits + 1]
        ELSE /\ retry_history' = Append(failed,
                    FinalFailureRecord(call.operation_name, e, retry_count))
             /\ calls' = [calls EXCEPT ![c].pc = "EXHAUSTED",
                                       ![c].last_exception = e,
                                       ![c].retry_count = retry_count,
                                       ![c].outcome =
                                           ExhaustedError(call.operation_name, retry_count, e)]

\* lines 91-112: the except branch for the exception e of attempt c.attempt
HandleFailure(c, e) ==
    LET call == calls[c]
        retry_count == NextRetryCount(call)
    IN  IF call.attempt < max_retries
        THEN /\ retry_history' = Append(retry_history,
                    FailedAttemptRecord(call.operation_name, e, call.attempt + 1))
             /\ calls' = [calls EXCEPT ![c].pc = "RETRY_WAIT",
                                       ![c].last_exception = e,
                                       ![c].retry_count = retry_count,
                                       ![c].delay = CalculateRetryDelay(call.attempt),
                                       ![c].waits = call.waits + 1]
        ELSE /\ retry_history' = Append(retry_history,
                    FinalFailureRecord(call.operation_name, e, retry_count))
             /\ calls' = [calls EXCEPT ![c].pc = "EXHAUSTED",
                                       ![c].last_exception = e,
                                       ![c].retry_count = retry_count,
                                       ![c].outcome =
                                           ExhaustedError(call.operation_name, retry_count, e)]

\* lines 77-89: the awaited operation returns `result`
OperationReturns(c, result) ==
    /\ calls[c].pc = "ATTEMPTING"
    /\ result \in Results(calls[c].operation_name)
    /\ IF ValidateResultQuality(result, calls[c].operation_name)
       THEN /\ retry_history' = Append(retry_history,
                   SuccessRecord(calls[c].operation_name, calls[c].retry_count))
            /\ calls' = [calls EXCEPT ![c].pc = "SUCCESS",
                                      ![c].outcome = Returned(result, calls[c].retry_count)]
       ELSE HandleFailure(c, QualityError(calls[c].operation_name))
    /\ UNCHANGED <<configVars, notRetryVars>>

\* lines 77, 91: the awaited operation raises
OperationRaises(c) ==
    /\ calls[c].pc = "ATTEMPTING"
    /\ HandleFailure(c, OperationError)
    /\ UNCHANGED <<configVars, notRetryVars>>

\* a loop that repeats the attempt it slept after
WakeUpRepeatingAttempt(c) ==
    /\ calls[c].pc = "RETRY_WAIT"
    /\ calls' = [calls EXCEPT ![c].pc = "ATTEMPTING"]
    /\ UNCHANGED <<configVars, retry_history, notRetryVars>>

\* lines 103-106, 71: the sleep ends and the loop starts the next attempt
WakeUp(c) ==
    /\ calls[c].pc = "RETRY_WAIT"
    /\ calls' = [calls EXCEPT ![c].pc = "ATTEMPTING", ![c].attempt = calls[c].attempt + 1]
    /\ UNCHANGED <<configVars, retry_history, notRetryVars>>

Next ==
    \/ \E operation_name \in OperationNames : StartCall(operation_name)
    \/ \E c \in 1..Len(calls) :
         \E result \in Results(calls[c].operation_name) : OperationReturns(c, result)
    \/ \E c \in 1..Len(calls) : OperationRaises(c)
    \/ \E c \in 1..Len(calls) : WakeUp(c)

Spec == InitRetry /\ [][Next]_vars

\* one call on a manager built with any of the backoff configurations
InitBackoff ==
    /\ IdleWords
    /\ IdleUtterance
    /\ IdleSync
    /\ IdleQuality
    /\ IdleReprocess
    /\ IdleSubtitles
    /\ max_retries \in 0..MaxRetries
    /\ \E config \in BackoffConfigs :
         /\ base_delay = config[1]
         /\ max_delay = config[2]
         /\ exponential_backoff = config[3]
    /\ retry_history = <<>>
    /\ calls = <<>>

NextBackoff ==
    \/ \E operation_name \in OperationNames : calls = <<>> /\ StartCall(operation_name)
    \/ /\ calls # <<>>
       /\ \E result \in Results(calls[1].operation_name) : OperationReturns(1, result)
    \/ calls # <<>> /\ OperationRaises(1)
    \/ calls # <<>> /\ WakeUp(1)

SpecBackoff == InitBackoff /\ [][NextBackoff]_vars

\* the awaited operation of call c completes: it returns or it raises
AttemptCompletes(c) ==
    /\ c \in 1..Len(calls)
    /\ \/ \E result \in Results(calls[c].operation_name) : OperationReturns(c, result)
       \/ OperationRaises(c)

\* one call whose every attempt returns and whose every sleep ends: the
\* operation it awaits completes, and asyncio.sleep / time.sleep return after
\* the delay
FairSpec ==
    /\ InitBackoff
    /\ [][NextBackoff]_vars
    /\ WF_vars(AttemptCompletes(1))
    /\ WF_vars(calls # <<>> /\ WakeUp(1))

-----------------------------------------------------------------------------
(* Claims about RetryManager.execute_with_retry.                           *)

\* the attempts a call has completed: the loop index counts the attempts
\* before the one in progress
AttemptsMade(call) == IF call.pc = "ATTEMPTING" THEN call.attempt ELSE call.attempt + 1

\* the attempts of a call that failed
FailuresOf(call) == IF call.pc = "SUCCESS" THEN call.attempt ELSE AttemptsMade(call)

RECURSIVE SumAttempts(_, _)
SumAttempts(cs, name) ==
    IF cs = <<>> THEN 0
    ELSE (IF Last(cs).operation_name = name THEN AttemptsMade(Last(cs)) ELSE 0)
         + SumAttempts(Front(cs), name)

RecordsOf(name) == {i \in 1..Len(retry_history) : retry_history[i].operation = name}

\* C3: a call whose operation failed k times (it raised, or its result was
\* rejected) and then succeeded has returned the pair (result, k), where
\* result is the accepted value of the successful attempt.
C3_ReturnsResultAndFailureCount ==
    \A c \in 1..Len(calls) :
        calls[c].pc = "SUCCESS" =>
            /\ ~calls[c].outcome.raised
            /\ calls[c].outcome.retry_count = FailuresOf(calls[c])
            /\ calls[c].outcome.result \in Results(calls[c].operation_name)
            /\ ValidateResultQuality(calls[c].outcome.result, calls[c].operation_name)

\* a call that succeeded after one failure while another retry was allowed
C3_SucceededAfterFailures ==
    \E c \in 1..Len(calls) :
        /\ calls[c].pc = "SUCCESS"
        /\ calls[c].attempt = 1
        /\ calls[c].attempt < max_retries
        /\ calls[c].outcome.retry_count = 1
        /\ calls[c].outcome.result = StrResult(TxtHej)

\* C4 as stated: a call whose max_retries + 1 attempts all failed raises, and
\* the count in the raised error and in the final_failure record is max_retries.
C4_ExhaustedReportsMaxRetries ==
    \A c \in 1..Len(calls) :
        calls[c].pc = "EXHAUSTED" =>
            /\ calls[c].outcome.raised
            /\ calls[c].outcome.retry_count = max_retries
            /\ \E i \in RecordsOf(calls[c].operation_name) :
                   /\ retry_history[i].status = "final_failure"
                   /\ retry_history[i].total_attempts = max_retries

\* C4 amended: a call raises exactly when its max_retries + 1 attempts have all
\* failed; the raised error names the operation and the last failure, and the
\* count in it and in every final_failure record is the number of attempts,
\* max_retries + 1.
C4_ExhaustedReportsAttempts ==
    /\ \A c \in 1..Len(calls) :
          /\ calls[c].outcome.raised <=> calls[c].pc = "EXHAUSTED"
          /\ calls[c].pc = "EXHAUSTED" =>
                /\ FailuresOf(calls[c]) = max_retries + 1
                /\ calls[c].outcome.retry_count = max_retries + 1
                /\ calls[c].outcome.operation = calls[c].operation_name
                /\ calls[c].outcome.cause = calls[c].last_exception
                /\ \E i \in RecordsOf(calls[c].operation_name) :
                       /\ retry_history[i].status = "final_failure"
                       /\ retry_history[i].error = calls[c].last_exception
    /\ \A i \in 1..Len(retry_history) :
          retry_history[i].status = "final_failure" =>
              retry_history[i].total_attempts = max_retries + 1

\* a call that used up two retries and raised
C4_Exhausted ==
    \E c \in 1..Len(calls) :
        /\ calls[c].pc = "EXHAUSTED"
        /\ max_retries = 2
        /\ calls[c].outcome.retry_count = 3
        /\ Last(retry_history).status = "final_failure"

\* C5: the history holds one record per attempt made, per operation name as
\* well as in total, and a step never changes the records already present:
\* the old history is a prefix of the new one.
C5_OneRecordPerAttemptAppendOnly ==
    /\ [](\A name \in OperationNames :
             Cardinality(RecordsOf(name)) = SumAttempts(calls, name))
    /\ [][/\ Len(retry_history') >= Len(retry_history)
           /\ SubSeq(retry_history', 1, Len(retry_history)) = retry_history]_vars

\* one call succeeded at its second attempt, the other failed all three of its
\* attempts: five attempts, five records
C5_FiveAttemptsFiveRecords ==
    /\ Len(calls) = 2
    /\ max_retries = 2
    /\ \E c, d \in 1..Len(calls) :
          /\ calls[c].pc = "SUCCESS" /\ calls[c].attempt = 1
          /\ calls[d].pc = "EXHAUSTED"
          /\ calls[c].operation_name # calls[d].operation_name
    /\ Len(retry_history) = 5

\* a call has returned or raised
Finished(c) == c \in 1..Len(calls) /\ calls[c].pc \in {"SUCCESS", "EXHAUSTED"}

\* the position of a call is consistent with the attempts and waits it made
StateMachineInvariant ==
    \A c \in 1..Len(calls) :
        LET call == calls[c]
        IN  /\ call.pc \in {"ATTEMPTING", "RETRY_WAIT", "SUCCESS", "EXHAUSTED"}
            /\ call.attempt <= max_retries
            /\ call.pc = "ATTEMPTING" => call.waits = call.attempt
            /\ call.pc = "RETRY_WAIT" =>
                  call.waits = call.attempt + 1 /\ call.attempt < max_retries
            /\ call.pc = "SUCCESS" => call.waits = call.attempt
            /\ call.pc = "EXHAUSTED" =>
                  call.waits = call.attempt /\ call.attempt = max_retries

\* what one step does to a call that exists before and after it
StateMachineStep(c) ==
    LET call == calls[c]
        next == calls'[c]
        failed == call.pc = "ATTEMPTING" /\ next.pc \in {"RETRY_WAIT", "EXHAUSTED"}
    IN  /\ call.pc \in {"SUCCESS", "EXHAUSTED"} => next = call
        /\ call.pc = "ATTEMPTING" =>
              next.pc \in {"ATTEMPTING", "SUCCESS", "RETRY_WAIT", "EXHAUSTED"}
        /\ call.pc = "RETRY_WAIT" => next.pc \in {"RETRY_WAIT", "ATTEMPTING"}
        /\ (call.pc = "RETRY_WAIT" /\ next.pc = "ATTEMPTING") =>
              next.attempt = call.attempt + 1 /\ next.waits = call.waits
        /\ (call.pc = "ATTEMPTING" /\ next.pc = "ATTEMPTING") => next = call
        /\ failed =>
              /\ next.pc = IF call.attempt < max_retries THEN "RETRY_WAIT" ELSE "EXHAUSTED"
              /\ next.attempt = call.attempt
              /\ next.retry_count = call.retry_count + 1
              /\ next.waits = IF call.attempt < max_retries THEN call.waits + 1
                               ELSE call.waits
              /\ next.last_exception \in
                    {OperationError, QualityError(call.operation_name)}
              /\ Len(retry_history') = Len(retry_history) + 1
              /\ Last(retry_history').status =
                    IF call.attempt < max_retries THEN "failed_attempt" ELSE "final_failure"

\* a step keeps the calls made, moves each by the rules above, and a call it
\* adds awaits its first attempt
StateMachineSteps ==
    /\ Len(calls') >= Len(calls)
    /\ \A c \in 1..Len(calls) : StateMachineStep(c)
    /\ \A d \in (Len(calls) + 1)..Len(calls') :
          calls'[d].pc = "ATTEMPTING" /\ calls'[d].attempt = 0

\* C25: every call follows PENDING (not yet made) -> ATTEMPTING -> SUCCESS,
\* RETRY_WAIT -> ATTEMPTING or EXHAUSTED: it makes at most max_retries + 1
\* attempts, has waited once per attempt before the one in progress and not
\* after its last attempt, does nothing more after a success or exhaustion, a
\* rejected result and a raised exception lead to the same next position,
\* counters and kind of record, and when every attempt returns and every sleep
\* ends each call made ends in SUCCESS or EXHAUSTED.
C25_StateMachine ==
    /\ []StateMachineInvariant
    /\ [][StateMachineSteps]_vars
    /\ \A c \in CallIds : (c \in 1..Len(calls)) ~> Finished(c)

\* a call whose first result was rejected and whose second attempt raised
\* slept twice and succeeded at its third attempt
C25_RejectedRaisedSucceeded ==
    \E c \in 1..Len(calls) :
        /\ calls[c].pc = "SUCCESS"
        /\ calls[c].attempt = 2
        /\ calls[c].waits = 2
        /\ \E i, j \in RecordsOf(calls[c].operation_name) :
              /\ i < j
              /\ retry_history[i].status = "failed_attempt"
              /\ retry_history[i].error = QualityError(calls[c].operation_name)
              /\ retry_history[j].status = "failed_attempt"
              /\ retry_history[j].error = OperationError

\* what a record says apart from the error text: the operation, the kind of
\* record and the number it carries
RecordShape(record) ==
    [operation |-> record.operation, status |-> record.status,
     number |-> IF record.status = "failed_attempt" THEN record.attempt
                ELSE IF record.status = "success" THEN record.retry_count
                ELSE record.total_attempts]

\* the records a finished call has written, in the order of its attempts: one
\* failed_attempt per attempt before the last, then its success or
\* final_failure record
RecordsExpected(call) ==
    [k \in 1..(call.attempt + 1) |->
        IF k <= call.attempt
        THEN [operation |-> call.operation_name, status |-> "failed_attempt", number |-> k]
        ELSE IF call.pc = "SUCCESS"
        THEN [operation |-> call.operation_name, status |-> "success",
              number |-> call.attempt]
        ELSE [operation |-> call.operation_name, status |-> "final_failure",
              number |-> call.attempt + 1]]

\* owner gives every record of the history to one call, and each call's
\* records, in history order, are the records expected of it
Attributes(owner) ==
    \A c \in 1..Len(calls) :
        LET mine == {i \in 1..Len(retry_history) : owner[i] = c}
        IN  /\ Cardinality(mine) = calls[c].attempt + 1
            /\ \A i \in mine :
                  RecordShape(retry_history[i]) =
                      RecordsExpected(calls[c])[Cardinality({j \in mine : j <= i})]
            /\ calls[c].pc = "EXHAUSTED" =>
                  \E i \in mine : /\ retry_history[i].status = "final_failure"
                                   /\ retry_history[i].error = calls[c].last_exception

\* the ways to give every record to a call of the operation it names
Owners ==
    LET named(i) == {c \in 1..Len(calls) :
                        calls[c].operation_name = retry_history[i].operation}
    IN  IF \E i \in 1..Len(retry_history) : named(i) = {} THEN {}
        ELSE IF \A i \in 1..Len(retry_history) : Cardinality(named(i)) = 1
        THEN {[i \in 1..Len(retry_history) |-> CHOOSE c \in named(i) : TRUE]}
        ELSE [1..Len(retry_history) -> 1..Len(calls)]

AllFinished == calls # <<>> /\ \A c \in 1..Len(calls) : Finished(c)

\* C26: when the calls that share a manager have all finished, however their
\* steps interleaved, the records of retry_history can be given to the calls
\* so that every record belongs to exactly one call and each call has exactly
\* one record per attempt, in the order of its attempts, the last one its
\* success or final_failure record: none is lost, duplicated or carries
\* another call's operation or attempt number.
C26_RecordsAttributedToCalls ==
    AllFinished =>
        /\ Len(retry_history) = SumAttempts(calls, calls[1].operation_name)
              + (IF Len(calls) = 2 /\ calls[2].operation_name # calls[1].operation_name
                 THEN SumAttempts(calls, calls[2].operation_name) ELSE 0)
        /\ \E owner \in Owners : Attributes(owner)

\* two calls of the same operation failed their first attempts one after the
\* other and finished, one with a success and one exhausted
C26_InterleavedSameOperation ==
    /\ AllFinished
    /\ Len(calls) = 2
    /\ calls[1].operation_name = calls[2].operation_name
    /\ calls[1].pc = "SUCCESS" /\ calls[2].pc = "EXHAUSTED"
    /\ Len(retry_history) >= 4
    /\ retry_history[1].status = "failed_attempt" /\ retry_history[1].attempt = 1
    /\ retry_history[2].status = "failed_attempt" /\ retry_history[2].attempt = 1

\* the calls sleeping before their next attempt
Sleeping == {c \in 1..Len(calls) : calls[c].pc = "RETRY_WAIT"}

\* C21 as stated: the wait after failed attempt a is min(base_delay * 2^a,
\* max_delay) with exponential backoff and the constant base_delay without,
\* whatever base_delay and max_delay are.
C21_ConstantDelayIsBaseDelay ==
    \A c \in Sleeping :
        calls[c].delay = IF exponential_backoff
                         THEN Min(base_delay * Pow2(calls[c].attempt), max_delay)
                         ELSE base_delay

\* C21: the wait after failed attempt a is min(base_delay * 2^a, max_delay)
\* with exponential backoff and min(base_delay, max_delay) without: max_delay
\* caps the wait in both modes.
C21_DelayCappedInBothModes ==
    \A c \in Sleeping :
        calls[c].delay = IF exponential_backoff
                         THEN Min(base_delay * Pow2(calls[c].attempt), max_delay)
                         ELSE Min(base_delay, max_delay)

\* a call of a manager without exponential backoff whose base_delay exceeds
\* max_delay sleeps max_delay before its retry
C21_ConstantDelayCapped ==
    \E c \in Sleeping :
        /\ ~exponential_backoff
        /\ base_delay > max_delay
        /\ calls[c].delay = max_delay

-----------------------------------------------------------------------------
(* UtteranceSegmentator: configuration and text helpers.                   *)

natural_break_threshold == 500

\* _optimize_utterance_segmentation: an utterance shorter than 0.5 s is merged
\* when the pause before it is below 1.0 s, one longer than 10.0 s is split
ShortUtterance == 500

MergePause == 1000

LongUtterance == 10000

\* _split_long_utterance
target_duration == 5000

\* _extract_words_for_segment: the tolerance around the segment
WordTolerance == 100

SentenceEnd == {".", "!", "?", ";"}

SplitPunctuation == {",", ";", ":"}

\* the ASCII conjunctions of _is_good_split_point
Conjunctions ==
    { <<"i">>, <<"a">>, <<"a", "l", "e">>, <<"o", "r", "a", "z">>,
      <<"l", "u", "b">>, <<"b", "o">>, <<"g", "d", "y">> }

\* str.lower over the letters the input texts use
LowerChar(ch) == IF ch = "H" THEN "h" ELSE ch

Lower(t) == [i \in 1..Len(t) |-> LowerChar(t[i])]

RECURSIVE JoinTexts(_)
\* " ".join(texts)
JoinTexts(ts) ==
    IF ts = <<>> THEN <<>>
    ELSE IF Len(ts) = 1 THEN ts[1]
    ELSE ts[1] \o <<" ">> \o JoinTexts(Tail(ts))

WordTexts(ws) == [i \in 1..Len(ws) |-> ws[i].text]

-----------------------------------------------------------------------------
(* UtteranceSegmentator: the transcripts the model draws.  A segment is    *)
(* placed after the previous one by a gap that may be negative (the two    *)
(* overlap, as two speakers talking over each other do); segments arrive   *)
(* in order of their start.                                                *)

MaxSegments == 3

TxtI == <<"i">>

TxtSo == <<"s", "o", ",">>

\* a segment of 0.3 s, one of 2 s closing a sentence, one of 12 s
SegmentShapes ==
    { [duration |-> 300, words |-> << <<TxtHi, 0, 300>> >>],
      [duration |-> 2000, words |-> << <<TxtHi, 0, 1000>>, <<TxtEnd, 1000, 2000>> >>],
      [duration |-> 12000,
       words |-> << <<TxtSo, 0, 6000>>, <<TxtI, 6000, 9000>>, <<TxtThere, 9000, 12000>> >>] }

SegmentGaps == {0 - 500, 200, 1500}

Speakers == {"A", "B"}

WordsAt(shape, start) ==
    [i \in 1..Len(shape.words) |->
        [text |-> shape.words[i][1], start |-> start + shape.words[i][2],
         end |-> start + shape.words[i][3], confidence |-> 900]]

SegmentAt(shape, start, speaker) ==
    [text |-> JoinTexts([i \in 1..Len(shape.words) |-> shape.words[i][1]]),
     start |-> start, end |-> start + shape.duration,
     confidence |-> 900, speaker |-> speaker]

UtteranceAt(shape, start, speaker) ==
    [text |-> JoinTexts([i \in 1..Len(shape.words) |-> shape.words[i][1]]),
     start |-> start, end |-> start + shape.duration,
     confidence |-> 900, speaker |-> speaker, words |-> WordsAt(shape, start)]

\* where the next segment of the transcript may start
NextStarts(placed) ==
    IF placed = <<>> THEN {g \in SegmentGaps : g >= 0}
    ELSE {Last(placed).end + g : g \in SegmentGaps} \ 0..(Last(placed).start - 1)

-----------------------------------------------------------------------------
(* UtteranceSegmentator: the functions.                                    *)

UtteranceSegment(text, start, end, confidence, speaker, ws, segment_id, is_natural_break) ==
    [text |-> text, start |-> start, end |-> end, confidence |-> confidence,
     speaker |-> speaker, words |-> ws, pause_before |-> 0, pause_after |-> 0,
     is_natural_break |-> is_natural_break, segment_id |-> segment_id]

\* _process_assemblyai_utterances; times are kept in milliseconds
ProcessAssemblyAIUtterances(utterances_data) ==
    [i \in 1..Len(utterances_data) |->
        LET u == utterances_data[i]
        IN  UtteranceSegment(u.text, u.start, u.end, u.confidence, u.speaker,
                             u.words, i - 1, TRUE)]

\* _is_natural_utterance_break
IsNaturalUtteranceBreak(segment, all_segments, index) ==
    LET text == Strip(segment.text)
    IN  IF text # <<>> /\ Last(text) \in SentenceEnd THEN TRUE
        ELSE IF index < Len(all_segments)
                /\ all_segments[index + 1].start - segment.end >= natural_break_threshold
        THEN TRUE
        ELSE FALSE

\* _extract_words_for_segment
ExtractWordsForSegment(segment, all_words) ==
    SelectSeq(all_words,
              LAMBDA word : /\ word.start >= segment.start - WordTolerance
                            /\ word.end <= segment.end + WordTolerance)

\* _create_utterances_from_segments
CreateUtterancesFromSegments(td) ==
    [i \in 1..Len(td.segments) |->
        LET segment == td.segments[i]
        IN  UtteranceSegment(segment.text, segment.start, segment.end,
                             segment.confidence, segment.speaker,
                             ExtractWordsForSegment(segment, td.words), i - 1,
                             IsNaturalUtteranceBreak(segment, td.segments, i))]

\* _analyze_pauses
AnalyzePauses(us) ==
    IF Len(us) < 2 THEN us
    ELSE [i \in 1..Len(us) |->
            [us[i] EXCEPT
                !.pause_before = IF i > 1 THEN Max(0, us[i].start - us[i - 1].end) ELSE @,
                !.pause_after = IF i < Len(us) THEN Max(0, us[i + 1].start - us[i].end) ELSE @]]

\* next((i for i, w in enumerate(all_words) if w == word), -1), counted from 1
WordIndex(word, all_words) ==
    LET hits == {i \in 1..Len(all_words) : all_words[i] = word}
    IN  IF hits = {} THEN 0 ELSE CHOOSE i \in hits : \A j \in hits : i <= j

\* _is_good_split_point
IsGoodSplitPoint(word, all_words) ==
    IF \E i \in 1..Len(word.text) : Lower(word.text)[i] \in SplitPunctuation THEN TRUE
    ELSE LET word_index == WordIndex(word, all_words)
         IN  IF word_index < Len(all_words)
                /\ Lower(all_words[word_index + 1].text) \in Conjunctions
             THEN TRUE
             ELSE FALSE

RECURSIVE SplitLoop(_, _, _, _, _)
\* the loop of _split_long_utterance and the remaining words after it
SplitLoop(utterance, i, split_utterances, current_words, current_start) ==
    IF i > Len(utterance.words)
    THEN IF current_words # <<>>
         THEN Append(split_utterances,
                     UtteranceSegment(JoinTexts(WordTexts(current_words)), current_start,
                                      utterance.end, utterance.confidence, utterance.speaker,
                                      current_words, utterance.segment_id,
                                      utterance.is_natural_break))
         ELSE split_utterances
    ELSE LET word == utterance.words[i]
             taken == Append(current_words, word)
         IN  IF /\ word.end - current_start >= target_duration
                /\ IsGoodSplitPoint(word, utterance.words)
             THEN SplitLoop(utterance, i + 1,
                            Append(split_utterances,
                                   UtteranceSegment(JoinTexts(WordTexts(taken)), current_start,
                                                    word.end, utterance.confidence,
                                                    utterance.speaker, taken,
                                                    utterance.segment_id, FALSE)),
                            <<>>, word.end)
             ELSE SplitLoop(utterance, i + 1, split_utterances, taken, current_start)

\* _split_long_utterance
SplitLongUtterance(utterance) ==
    IF utterance.words = <<>> THEN <<utterance>>
    ELSE LET split_utterances == SplitLoop(utterance, 1, <<>>, <<>>, utterance.start)
         IN  IF split_utterances # <<>> THEN split_utterances ELSE <<utterance>>

\* a merge that keeps the end of the utterance merged into
CombinedUtteranceKeepingEnd(prev_utterance, utterance) ==
    [text |-> prev_utterance.text \o <<" ">> \o utterance.text,
     start |-> prev_utterance.start,
     end |-> prev_utterance.end,
     confidence |-> (prev_utterance.confidence + utterance.confidence) \div 2,
     speaker |-> prev_utterance.speaker,
     words |-> prev_utterance.words \o utterance.words,
     pause_before |-> prev_utterance.pause_before,
     pause_after |-> utterance.pause_after,
     is_natural_break |-> utterance.is_natural_break,
     segment_id |-> prev_utterance.segment_id]

\* the utterance that replaces optimized[-1] when a short one is merged into it
CombinedUtterance(prev_utterance, utterance) ==
    [text |-> prev_utterance.text \o <<" ">> \o utterance.text,
     start |-> prev_utterance.start,
     end |-> utterance.end,
     confidence |-> (prev_utterance.confidence + utterance.confidence) \div 2,
     speaker |-> prev_utterance.speaker,
     words |-> prev_utterance.words \o utterance.words,
     pause_before |-> prev_utterance.pause_before,
     pause_after |-> utterance.pause_after,
     is_natural_break |-> utterance.is_natural_break,
     segment_id |-> prev_utterance.segment_id]

\* a post-pass that merges a short utterance whoever speaks it
OptimizeStepAnySpeaker(optimized, utterance) ==
    LET duration == utterance.end - utterance.start
    IN  IF /\ duration < ShortUtterance
           /\ optimized # <<>>
           /\ utterance.pause_before < MergePause
        THEN [optimized EXCEPT ![Len(optimized)] = CombinedUtterance(Last(optimized), utterance)]
        ELSE IF duration > LongUtterance
        THEN optimized \o SplitLongUtterance(utterance)
        ELSE Append(optimized, utterance)

\* the body of the loop of _optimize_utterance_segmentation
OptimizeStep(optimized, utterance) ==
    LET duration == utterance.end - utterance.start
    IN  IF /\ duration < ShortUtterance
           /\ optimized # <<>>
           /\ Last(optimized).speaker = utterance.speaker
           /\ utterance.pause_before < MergePause
        THEN [optimized EXCEPT ![Len(optimized)] = CombinedUtterance(Last(optimized), utterance)]
        ELSE IF duration > LongUtterance
        THEN optimized \o SplitLongUtterance(utterance)
        ELSE Append(optimized, utterance)

RECURSIVE OptimizeLoop(_, _, _)
OptimizeLoop(us, i, optimized) ==
    IF i > Len(us) THEN optimized
    ELSE OptimizeLoop(us, i + 1, OptimizeStep(optimized, us[i]))

\* _optimize_utterance_segmentation
OptimizeUtteranceSegmentation(us) ==
    IF us = <<>> THEN us ELSE OptimizeLoop(us, 1, <<>>)

-----------------------------------------------------------------------------
(* UtteranceSegmentator.segment_by_utterances, step by step.               *)

InitUtterances ==
    /\ IdleWords
    /\ IdleRetry
    /\ IdleSync
    /\ IdleQuality
    /\ IdleReprocess
    /\ IdleSubtitles
    /\ transcript_data = [segments |-> <<>>, words |-> <<>>, utterances |-> <<>>]
    /\ utterances = <<>>
    /\ segmentation = "receiving"

\* the transcription lists one more segment and its words
ReceiveSegment ==
    /\ segmentation = "receiving"
    /\ transcript_data.utterances = <<>>
    /\ Len(transcript_data.segments) < MaxSegments
    /\ \E shape \in SegmentShapes, speaker \in Speakers :
         \E start \in NextStarts(transcript_data.segments) :
           transcript_data' =
               [transcript_data EXCEPT
                   !.segments = Append(@, SegmentAt(shape, start, speaker)),
                   !.words = @ \o WordsAt(shape, start)]
    /\ UNCHANGED <<utterances, segmentation, notUtteranceVars>>

\* the transcription lists one more utterance, which carries its own words
ReceiveUtterance ==
    /\ segmentation = "receiving"
    /\ transcript_data.segments = <<>>
    /\ Len(transcript_data.utterances) < MaxSegments
    /\ \E shape \in SegmentShapes, speaker \in Speakers :
         \E start \in NextStarts(transcript_data.utterances) :
           transcript_data' =
               [transcript_data EXCEPT
                   !.utterances = Append(@, UtteranceAt(shape, start, speaker))]
    /\ UNCHANGED <<utterances, segmentation, notUtteranceVars>>

\* lines 60-66: the utterances of the transcription when it has any, else
\* utterances made from its segments and words
CreateUtterances ==
    /\ segmentation = "receiving"
    /\ utterances' = IF transcript_data.utterances # <<>>
                     THEN ProcessAssemblyAIUtterances(transcript_data.utterances)
                     ELSE CreateUtterancesFromSegments(transcript_data)
    /\ segmentation' = "created"
    /\ UNCHANGED <<transcript_data, notUtteranceVars>>

\* line 69
AnalyzeUtterancePauses ==
    /\ segmentation = "created"
    /\ utterances' = AnalyzePauses(utterances)
    /\ segmentation' = "analyzed"
    /\ UNCHANGED <<transcript_data, notUtteranceVars>>

\* lines 72-78
OptimizeSegmentation ==
    /\ segmentation = "analyzed"
    /\ utterances' = OptimizeUtteranceSegmentation(utterances)
    /\ segmentation' = "returned"
    /\ UNCHANGED <<transcript_data, notUtteranceVars>>

NextUtterances ==
    \/ ReceiveSegment
    \/ ReceiveUtterance
    \/ CreateUtterances
    \/ AnalyzeUtterancePauses
    \/ OptimizeSegmentation

SpecUtterances == InitUtterances /\ [][NextUtterances]_vars

-----------------------------------------------------------------------------
(* Claims about UtteranceSegmentator.segment_by_utterances.                *)

UtterancesReturned == segmentation = "returned"

\* C6: in every list segment_by_utterances returns, each utterance ends no
\* later than the next one starts, whatever the transcript: its segments may
\* overlap, and utterances may have been merged or split.
C6_UtterancesDoNotOverlap ==
    UtterancesReturned =>
        \A i \in 1..(Len(utterances) - 1) : utterances[i].end <= utterances[i + 1].start

\* what segment_by_utterances segments: the utterances of the transcription
\* when it has any (line 60), else its segments
InputSpans ==
    IF transcript_data.utterances # <<>> THEN transcript_data.utterances
    ELSE transcript_data.segments

\* the pauses of a list: where one entry ends before the next one starts
Pauses(xs) ==
    { <<xs[i].end, xs[i + 1].start>> : i \in {j \in 1..(Len(xs) - 1) : xs[j].end < xs[j + 1].start} }

OptimizedAfter(us, n) == OptimizeLoop(SubSeq(us, 1, n), 1, <<>>)

PausesOf(xs, i) ==
    [pause_before |-> IF i > 1 THEN Max(0, xs[i].start - xs[i - 1].end) ELSE 0,
     pause_after |-> IF i < Len(xs) THEN Max(0, xs[i + 1].start - xs[i].end) ELSE 0]

\* C29: in the list segment_by_utterances returns, pause_before of every
\* utterance is max(0, start - end of the utterance before it in the list) and
\* pause_after is max(0, start of the next one - end), 0 at the two ends of the
\* list, also for the utterances that merging and splitting produced.
C29_PausesOfReturnedList ==
    UtterancesReturned =>
        \A i \in 1..Len(utterances) :
            /\ utterances[i].pause_before = PausesOf(utterances, i).pause_before
            /\ utterances[i].pause_after = PausesOf(utterances, i).pause_after

-----------------------------------------------------------------------------
(* AudioSyncManager: configuration.  Times are in milliseconds,            *)
(* confidences and correlations in thousandths.                            *)

max_offset_seconds == 10000

min_confidence == 300

\* _precise_onset_alignment: np.arange(-max_offset_seconds, max_offset_seconds, 0.05)
OnsetStep == 50

OnsetSteps == (2 * max_offset_seconds) \div OnsetStep

\* _calculate_onset_alignment_score
OnsetTolerance == 300

\* _energy_based_sync
time_resolution == 100

EnergyPadding == 2000

\* _simple_estimation_sync
EarlyStart == 500

UnclippedValue(x, lo, hi) == x

\* np.clip
Clip(x, lo, hi) == IF x < lo THEN lo ELSE IF x > hi THEN hi ELSE x

-----------------------------------------------------------------------------
(* AudioSyncManager: what the model draws.  The audio analysis (librosa,   *)
(* scipy, numpy) is not computed: the speech segments, onsets and beats it *)
(* finds, the peak of the cross-correlation and the correlation            *)
(* coefficient are inputs, each from the range the library can return.     *)

MaxSyncSegments == 3

SyncSegmentGaps == {100, 1000}

SyncSegmentDurations == {400, 9000}

\* the speech onsets _detect_speech_onsets may report for an analysed file
AudioOnsetChoices == { <<>>, <<1000>>, <<1150, 2550>>, <<100, 4000, 9600>> }

\* the coefficient np.corrcoef may return for the best rhythm offset
CorrcoefValues == {0 - 500, 0, 250, 800}

\* offsets of np.arange(-2.0, 2.0, 0.1)
RhythmOffsets == {0 - 2000, 300, 1900}

\* correlation[max_corr_idx] / len(transcript_activity) before clipping
EnergyCorrelations == {0, 200, 600, 1000}

\* an energy profile without frames, or the 100 frames of the fallback
\* features with what the analysis found in them
AudioFeatureChoices ==
    {NoAudio} \cup
    { [energy_profile |-> 100, speech_segments |-> sp, onsets |-> on, beat_frames |-> bf] :
        sp \in {0, 2}, on \in AudioOnsetChoices, bf \in {0, 4} }

-----------------------------------------------------------------------------
(* AudioSyncManager: the estimators.  Each returns <<offset, confidence>>. *)

RECURSIVE MaxEnd(_)
\* max(seg['end'] for seg in transcript_segments)
MaxEnd(segs) ==
    IF Len(segs) = 1 THEN segs[1].end ELSE Max(segs[1].end, MaxEnd(Tail(segs)))

\* min(abs(a_onset - t_onset) for a_onset in audio_onsets)
MinDistance(audio_onsets, t_onset) ==
    LET distances == {Abs(audio_onsets[i] - t_onset) : i \in 1..Len(audio_onsets)}
    IN  CHOOSE d \in distances : \A e \in distances : d <= e

RECURSIVE OnsetScoreSum(_, _, _)
\* total_score of _calculate_onset_alignment_score, times the tolerance
OnsetScoreSum(audio_onsets, transcript_onsets, offset) ==
    IF transcript_onsets = <<>> THEN 0
    ELSE LET min_distance == MinDistance(audio_onsets, transcript_onsets[1] + offset)
         IN  (IF min_distance <= OnsetTolerance THEN OnsetTolerance - min_distance ELSE 0)
             + OnsetScoreSum(audio_onsets, Tail(transcript_onsets), offset)

\* _calculate_onset_alignment_score of the onsets shifted by offset, in
\* thousandths
CalculateOnsetAlignmentScore(audio_onsets, transcript_onsets, offset) ==
    IF audio_onsets = <<>> \/ transcript_onsets = <<>> THEN 0
    ELSE (OnsetScoreSum(audio_onsets, transcript_onsets, offset) * 1000)
         \div (OnsetTolerance * Len(transcript_onsets))

\* the loop over test_offsets: the first offset whose score is the highest,
\* or offset 0.0 and score 0.0 when no offset scores above 0.0
OnsetSearch(audio_onsets, transcript_onsets) ==
    LET scored == { <<k, CalculateOnsetAlignmentScore(audio_onsets, transcript_onsets,
                                                      k * OnsetStep - max_offset_seconds)>> :
                    k \in 0..(OnsetSteps - 1) }
        scores == {p[2] : p \in scored}
        best_score == CHOOSE x \in scores : \A y \in scores : y <= x
        hits == {p[1] : p \in {q \in scored : q[2] = best_score}}
        first == CHOOSE k \in hits : \A j \in hits : k <= j
    IN  IF best_score > 0 THEN <<first * OnsetStep - max_offset_seconds, best_score>>
        ELSE <<0, 0>>

\* _precise_onset_alignment
PreciseOnsetAlignment(af, segs) ==
    IF af.energy_profile = 0 \/ af.speech_segments = 0 \/ segs = <<>> THEN <<0, 0>>
    ELSE IF Len(af.onsets) < 2 \/ Len(segs) < 2 THEN <<0, 0>>
    ELSE LET found == OnsetSearch(af.onsets, [i \in 1..Len(segs) |-> segs[i].start])
         IN  <<found[1], Min(found[2], 1000)>>

\* len(time_bins) of _energy_based_sync
ActivityBins(segs) == (MaxEnd(segs) + EnergyPadding + time_resolution - 1) \div time_resolution

\* the places the cross-correlation may peak, as offset_bins
PeakBins(segs) ==
    {0 - (ActivityBins(segs) - 1), 0 - 3, 0, 5, ActivityBins(segs) - 1}

\* _energy_based_sync, for the peak the cross-correlation has
EnergyBasedSync(af, segs, offset_bins, correlation) ==
    IF af.energy_profile = 0 \/ segs = <<>> THEN <<0, 0>>
    ELSE <<Clip(offset_bins * time_resolution, 0 - max_offset_seconds, max_offset_seconds),
           Clip(correlation, 0, 1000)>>

\* _calculate_rhythm_correlation: max(0.0, correlation)
RhythmCorrelation(corrcoef) == Max(0, corrcoef)

\* _rhythm_based_sync, for the best offset of the loop and its coefficient
RhythmBasedSync(af, segs, offset, corrcoef) ==
    IF af.beat_frames = 0 THEN <<0, 0>>
    ELSE IF Len(segs) < 2 THEN <<0, 0>>
    ELSE IF RhythmCorrelation(corrcoef) > 0 THEN <<offset, RhythmCorrelation(corrcoef)>>
    ELSE <<0, 0>>

\* _simple_estimation_sync
SimpleEstimationSync(segs) ==
    IF segs = <<>> THEN <<0, 0>>
    ELSE IF segs[1].start < EarlyStart THEN <<300, 400>>
    ELSE <<0, 500>>

-----------------------------------------------------------------------------
(* AudioSyncManager.analyze_audio_features                                 *)

\* what analyze_audio_features finds at audio_path
AudioPaths == {"ok", "missing", "unreadable", "empty"}

\* the onsets _detect_speech_onsets may report in the 2.3 s the 100 fallback
\* frames stand for
FallbackOnsetChoices == { <<>>, <<400, 1900>> }

\* _create_fallback_features: 100 frames of np.random.uniform energy and the
\* 10 beats of np.arange(0, 100, 10); what the speech and onset detection
\* find in the random energy is any of their outcomes
CreateFallbackFeatures ==
    { [energy_profile |-> 100, speech_segments |-> sp, onsets |-> on, beat_frames |-> 10] :
        sp \in {0, 1}, on \in FallbackOnsetChoices }

-----------------------------------------------------------------------------
(* AudioSyncManager.apply_sync_correction                                  *)

\* line 620: below this confidence a correction is skipped
VeryLowConfidence == 300

\* _validate_segment_timing: the largest shift of a start
MaxStartShift == 3000

\* _fix_overlapping_segments
SyncSegmentGap == 100

MinSyncSegmentDuration == 500

\* line 643: the shortest segment a shift may leave
MinShiftedDuration == 100

\* x * num / den, rounded towards zero
Scale(x, num, den) ==
    IF x >= 0 THEN (x * num) \div den ELSE 0 - (((0 - x) * num) \div den)

\* corrections a caller may hold: too unsure to use, unsure, sure
CallerCorrections(n) ==
    { SyncCorrection(2000, 200, "energy_based", n),
      SyncCorrection(0 - 1500, 450, "rhythm_based", n),
      SyncCorrection(0 - 600, 900, "precise_onset", n) }

\* lines 623-628: the offset to apply, for a main threshold
CorrectionOffset(c, threshold) ==
    IF c.confidence < threshold
    THEN Scale(c.offset_seconds, c.confidence, 1000)
    ELSE c.offset_seconds

\* _calculate_adaptive_offset; segment_index counts from 0
CalculateAdaptiveOffset(segment, base_offset, segment_index, total_segments) ==
    LET edge == IF segment_index = 0 \/ segment_index = total_segments - 1
                THEN Scale(base_offset, 7, 10) ELSE base_offset
        segment_duration == segment.end - segment.start
        sized == IF segment_duration < 1000 THEN Scale(edge, 8, 10)
                 ELSE IF segment_duration > 5000 THEN Scale(edge, 11, 10)
                 ELSE edge
        segment_confidence == IF "confidence" \in DOMAIN segment
                              THEN segment.confidence ELSE 1000
    IN  IF segment_confidence < 700 THEN Scale(sized, segment_confidence, 1000) ELSE sized

\* _validate_segment_timing
ValidateSegmentTiming(start, end, original_segment) ==
    LET original_duration == original_segment.end - original_segment.start
        new_duration == end - start
    IN  IF start < 0 \/ end <= start THEN FALSE
        ELSE IF original_duration > 0
                /\ (new_duration * 10 < 8 * original_duration
                    \/ new_duration * 10 > 12 * original_duration)
        THEN FALSE
        ELSE IF Abs(start - original_segment.start) > MaxStartShift THEN FALSE
        ELSE TRUE

\* a segment with the timing and the bookkeeping of lines 647-662
CorrectedSegment(segment, start, end, adaptive_offset, c) ==
    [start |-> start, end |-> end, sync_corrected |-> TRUE,
     sync_offset |-> adaptive_offset, sync_confidence |-> c.confidence,
     sync_method |-> c.method,
     original_start |-> segment.start, original_end |-> segment.end]

\* the body of the loop of apply_sync_correction (lines 636-664); i counts
\* from 0
ShiftSegment(segment, offset, i, total_segments, c) ==
    LET adaptive_offset == CalculateAdaptiveOffset(segment, offset, i, total_segments)
        new_start == Max(0, segment.start + adaptive_offset)
        new_end == Max(new_start + MinShiftedDuration, segment.end + adaptive_offset)
        fallback_offset == Scale(adaptive_offset, 1, 2)
        half_start == Max(0, segment.start + fallback_offset)
        half_end == Max(half_start + MinShiftedDuration, segment.end + fallback_offset)
    IN  IF ValidateSegmentTiming(new_start, new_end, segment)
        THEN CorrectedSegment(segment, new_start, new_end, adaptive_offset, c)
        ELSE CorrectedSegment(segment, half_start, half_end, adaptive_offset, c)

\* one iteration of the loop of _fix_overlapping_segments
FixOverlappingSyncStep(fixed_segments, segment) ==
    IF fixed_segments = <<>> THEN <<segment>>
    ELSE LET prev_segment == Last(fixed_segments)
         IN  IF segment.start < prev_segment.end
             THEN LET start == prev_segment.end + SyncSegmentGap
                      end == IF segment.end - start < MinSyncSegmentDuration
                             THEN start + MinSyncSegmentDuration ELSE segment.end
                  IN  Append(fixed_segments, [segment EXCEPT !.start = start, !.end = end])
             ELSE Append(fixed_segments, segment)

RECURSIVE FixOverlappingSyncLoop(_, _, _)
FixOverlappingSyncLoop(segments, i, fixed_segments) ==
    IF i > Len(segments) THEN fixed_segments
    ELSE FixOverlappingSyncLoop(segments, i + 1,
                                FixOverlappingSyncStep(fixed_segments, segments[i]))

\* AudioSyncManager._fix_overlapping_segments
FixOverlappingSyncSegments(segments) ==
    IF Len(segments) <= 1 THEN segments ELSE FixOverlappingSyncLoop(segments, 1, <<>>)

\* an apply_sync_correction without the test of line 620
ShiftSegmentsAlways(segments, c) ==
    FixOverlappingSyncSegments(
        [i \in 1..Len(segments) |->
            ShiftSegment(segments[i], c.offset_seconds, i - 1, Len(segments), c)])

\* lines 630-670: every segment shifted, then the overlaps fixed
ShiftSegments(segments, c) ==
    LET offset == CorrectionOffset(c, min_confidence)
    IN  FixOverlappingSyncSegments(
            [i \in 1..Len(segments) |->
                ShiftSegment(segments[i], offset, i - 1, Len(segments), c)])

\* apply_sync_correction
ApplySyncCorrectionTo(segments, c) ==
    IF c.confidence < VeryLowConfidence THEN segments ELSE ShiftSegments(segments, c)

-----------------------------------------------------------------------------
(* AudioSyncManager.calculate_sync_offset, estimator by estimator.         *)

InitSync ==
    /\ IdleWords
    /\ IdleRetry
    /\ IdleUtterance
    /\ IdleQuality
    /\ IdleReprocess
    /\ IdleSubtitles
    /\ audio_path \in AudioPaths
    /\ audio_features = NoAudio
    /\ transcript_segments = <<>>
    /\ sync = [pc |-> "analyze", best_offset |-> 0, best_confidence |-> 0, method |-> "none",
               candidates |-> <<>>]
    /\ sync_correction = SyncCorrection(0, 0, "none", 0)
    /\ correction = SyncCorrection(0, 0, "none", 0)
    /\ corrected_segments = <<>>

\* analyze_audio_features: the features of the file, or the fallback
\* features when the file is missing, cannot be read or is empty
AnalyzeAudioFeatures ==
    /\ sync.pc = "analyze"
    /\ audio_features' \in (IF audio_path = "ok" THEN AudioFeatureChoices
                            ELSE CreateFallbackFeatures)
    /\ sync' = [sync EXCEPT !.pc = "input"]
    /\ UNCHANGED <<audio_path, transcript_segments, sync_correction, correction,
                   corrected_segments, notSyncVars>>

\* the transcript to synchronise lists one more segment
AddSyncSegment ==
    /\ sync.pc = "input"
    /\ Len(transcript_segments) < MaxSyncSegments
    /\ \E gap \in SyncSegmentGaps, duration \in SyncSegmentDurations :
         LET start == (IF transcript_segments = <<>> THEN 0
                       ELSE Last(transcript_segments).end) + gap
         IN  transcript_segments' =
                 Append(transcript_segments, [start |-> start, end |-> start + duration])
    /\ UNCHANGED <<audio_features, sync, sync_correction, audio_path, correction, corrected_segments, notSyncVars>>

\* a replacement that leaves the method tag as it was
BetterKeepingMethod(candidate, method) ==
    IF candidate[2] > sync.best_confidence
    THEN [sync EXCEPT !.best_offset = candidate[1], !.best_confidence = candidate[2],
                      !.candidates = Append(@, <<method, candidate[1], candidate[2]>>)]
    ELSE [sync EXCEPT !.candidates = Append(@, <<method, candidate[1], candidate[2]>>)]

\* a candidate replaces the best so far only with a higher confidence;
\* candidates lists the (offset, confidence) pairs the estimators returned
Better(candidate, method) ==
    IF candidate[2] > sync.best_confidence
    THEN [sync EXCEPT !.best_offset = candidate[1], !.best_confidence = candidate[2],
                      !.method = method,
                      !.candidates = Append(@, <<method, candidate[1], candidate[2]>>)]
    ELSE [sync EXCEPT !.candidates = Append(@, <<method, candidate[1], candidate[2]>>)]

\* lines 213-219: speech detection; without speech or segments, no_data
DetectSpeech ==
    /\ sync.pc = "input"
    /\ IF audio_features.speech_segments = 0 \/ transcript_segments = <<>>
       THEN /\ sync_correction' = SyncCorrection(0, 0, "no_data", 0)
            /\ sync' = [sync EXCEPT !.pc = "returned"]
       ELSE /\ sync' = [sync EXCEPT !.pc = "onset"]
            /\ UNCHANGED sync_correction
    /\ UNCHANGED <<audio_features, transcript_segments, audio_path, correction, corrected_segments, notSyncVars>>

\* lines 221-229
PreciseOnset ==
    /\ sync.pc = "onset"
    /\ LET found == PreciseOnsetAlignment(audio_features, transcript_segments)
       IN  sync' = [pc |-> IF found[2] < min_confidence THEN "energy" ELSE "return",
                    best_offset |-> found[1], best_confidence |-> found[2],
                    method |-> "precise_onset",
                    candidates |-> << <<"precise_onset", found[1], found[2]>> >>]
    /\ UNCHANGED <<audio_features, transcript_segments, sync_correction, audio_path, correction, corrected_segments, notSyncVars>>

\* lines 231-241
EnergyBased ==
    /\ sync.pc = "energy"
    /\ \E offset_bins \in PeakBins(transcript_segments), correlation \in EnergyCorrelations :
         LET better == Better(EnergyBasedSync(audio_features, transcript_segments,
                                              offset_bins, correlation), "energy_based")
         IN  sync' = [better EXCEPT !.pc = IF better.best_confidence < min_confidence
                                           THEN "rhythm" ELSE "return"]
    /\ UNCHANGED <<audio_features, transcript_segments, sync_correction, audio_path, correction, corrected_segments, notSyncVars>>

\* lines 243-253
RhythmBased ==
    /\ sync.pc = "rhythm"
    /\ \E offset \in RhythmOffsets, corrcoef \in CorrcoefValues :
         LET better == Better(RhythmBasedSync(audio_features, transcript_segments,
                                              offset, corrcoef), "rhythm_based")
         IN  sync' = [better EXCEPT !.pc = IF better.best_confidence < min_confidence
                                           THEN "simple" ELSE "return"]
    /\ UNCHANGED <<audio_features, transcript_segments, sync_correction, audio_path, correction, corrected_segments, notSyncVars>>

\* lines 255-263
SimpleEstimation ==
    /\ sync.pc = "simple"
    /\ sync' = [Better(SimpleEstimationSync(transcript_segments), "simple_estimation")
                   EXCEPT !.pc = "return"]
    /\ UNCHANGED <<audio_features, transcript_segments, sync_correction, audio_path, correction, corrected_segments, notSyncVars>>

\* lines 267-272
ReturnCorrection ==
    /\ sync.pc = "return"
    /\ sync_correction' = SyncCorrection(sync.best_offset, sync.best_confidence,
                                         sync.method, Len(transcript_segments))
    /\ sync' = [sync EXCEPT !.pc = "returned", !.candidates = <<>>]
    /\ UNCHANGED <<audio_features, transcript_segments, audio_path, correction, corrected_segments, notSyncVars>>

\* lines 274-276: the audio analysis of the onset or energy estimator raises
EstimatorRaises ==
    /\ sync.pc \in {"onset", "energy"}
    /\ sync_correction' = SyncCorrection(0, 0, "error", 0)
    /\ sync' = [sync EXCEPT !.pc = "returned", !.candidates = <<>>]
    /\ UNCHANGED <<audio_features, transcript_segments, audio_path, correction, corrected_segments, notSyncVars>>

\* apply_sync_correction, called with the correction just calculated or with
\* one the caller holds
ApplySyncCorrection ==
    /\ sync.pc = "returned"
    /\ \E c \in {sync_correction} \cup CallerCorrections(Len(transcript_segments)) :
         /\ correction' = c
         /\ corrected_segments' = ApplySyncCorrectionTo(transcript_segments, c)
    /\ sync' = [sync EXCEPT !.pc = "applied"]
    /\ UNCHANGED <<audio_path, audio_features, transcript_segments, sync_correction,
                   notSyncVars>>

NextSync ==
    \/ AnalyzeAudioFeatures
    \/ AddSyncSegment
    \/ DetectSpeech
    \/ PreciseOnset
    \/ EnergyBased
    \/ RhythmBased
    \/ SimpleEstimation
    \/ ReturnCorrection
    \/ EstimatorRaises
    \/ ApplySyncCorrection

SpecSync == InitSync /\ [][NextSync]_vars

-----------------------------------------------------------------------------
(* Claims about AudioSyncManager.calculate_sync_offset.                    *)

CorrectionReturned == sync.pc = "returned"

\* C9: every SyncCorrection calculate_sync_offset returns has a confidence
\* between 0 and 1 and an offset of at most max_offset_seconds in either
\* direction, whichever estimator or early exit produced it.
C9_CorrectionWithinBounds ==
    CorrectionReturned =>
        /\ 0 <= sync_correction.confidence
        /\ sync_correction.confidence <= 1000
        /\ Abs(sync_correction.offset_seconds) <= max_offset_seconds
        /\ sync_correction.method \in {"precise_onset", "energy_based", "rhythm_based",
                                       "simple_estimation", "no_data", "error"}

\* the energy estimator's peak lay more than 10 s out and its offset was
\* returned, brought back to the limit
C9_EnergyOffsetClipped ==
    /\ CorrectionReturned
    /\ sync_correction.method = "energy_based"
    /\ sync_correction.offset_seconds = max_offset_seconds
    /\ (ActivityBins(transcript_segments) - 1) * time_resolution > max_offset_seconds

-----------------------------------------------------------------------------
(* Claims about AudioSyncManager.apply_sync_correction and the fallback    *)
(* features.                                                               *)

\* apply_sync_correction has returned
Applied == sync.pc = "applied"

SameTiming(a, b) == a.start = b.start /\ a.end = b.end

\* C14: every segment apply_sync_correction returns either passes the
\* validation of its shifted timing against its original timing (start >= 0,
\* end > start, duration within 20 %, start moved by at most 3 s) or has
\* exactly its original start and end.
C14_ShiftedValidOrOriginal ==
    Applied =>
        /\ Len(corrected_segments) = Len(transcript_segments)
        /\ \A i \in 1..Len(corrected_segments) :
              \/ ValidateSegmentTiming(corrected_segments[i].start, corrected_segments[i].end,
                                       transcript_segments[i])
              \/ SameTiming(corrected_segments[i], transcript_segments[i])

\* the thresholds min_confidence has had: 0.3 now, 0.6 before it was lowered
MainThresholds == {min_confidence, 600}

C16_NoCorrectionWithoutAudio ==
    (audio_path # "ok" /\ (CorrectionReturned \/ Applied)) =>
        /\ sync_correction.offset_seconds = 0
        /\ sync_correction.confidence = 0

\* the estimators in the order calculate_sync_offset tries them
EstimatorOrder == <<"precise_onset", "energy_based", "rhythm_based", "simple_estimation">>

\* the estimators have run in order, each only after all before it stayed
\* below 0.3
CandidatesInOrder ==
    /\ Len(sync.candidates) <= Len(EstimatorOrder)
    /\ \A k \in 1..Len(sync.candidates) :
          /\ sync.candidates[k][1] = EstimatorOrder[k]
          /\ \A j \in 1..(k - 1) : sync.candidates[j][3] < min_confidence

\* the step that returns the estimators' result returns the first confident
\* candidate, or one of the highest confidence
ReturnsFirstConfident ==
    (sync.pc = "return" /\ sync'.pc = "returned") =>
        LET cs == sync.candidates
            confident == {k \in 1..Len(cs) : cs[k][3] >= min_confidence}
        IN  /\ cs # <<>>
            /\ Len(cs) = Len(EstimatorOrder) \/ Last(cs)[3] >= min_confidence
            /\ \E k \in 1..Len(cs) :
                  /\ sync_correction'.method = cs[k][1]
                  /\ sync_correction'.offset_seconds = cs[k][2]
                  /\ sync_correction'.confidence = cs[k][3]
                  /\ IF confident # {}
                     THEN \A j \in confident : k <= j
                     ELSE \A j \in 1..Len(cs) : cs[j][3] <= cs[k][3]

\* C27: the estimators run in the order onset, energy, rhythm, heuristic, and
\* one runs only when every estimator before it stayed below 0.3; the offset
\* and confidence returned are those of the first estimator that reached 0.3,
\* or of a candidate of the highest confidence when none did, and the method
\* tag names the estimator whose offset is returned.
C27_FirstConfidentEstimatorReturned ==
    /\ []CandidatesInOrder
    /\ [][ReturnsFirstConfident]_vars

\* onset, energy and rhythm stayed below 0.3, the energy estimate being the
\* best of the three, and the heuristic's estimate is about to be returned
C27_HeuristicAfterThreeWeak ==
    /\ sync.pc = "return"
    /\ Len(sync.candidates) = 4
    /\ sync.candidates[2][3] > sync.candidates[1][3]
    /\ sync.candidates[2][3] > sync.candidates[3][3]
    /\ sync.method = "simple_estimation"
    /\ sync.best_confidence = sync.candidates[4][3]

-----------------------------------------------------------------------------
(* QualityController: configuration.                                       *)

min_confidence_threshold == 700

min_segment_duration == 500

max_segment_duration == 10000

max_chars_per_second == 20

min_chars_per_second == 5

\* calculate_confidence_metrics(transcript_data, translation_quality=0.8)
translation_quality == 800

-----------------------------------------------------------------------------
(* QualityController: the validations.  Each returns [valid, issues]; an   *)
(* issue is <<kind>> or <<kind, segment index>>.                           *)

CountWhere(xs, Test(_)) == Cardinality({i \in 1..Len(xs) : Test(xs[i])})

\* validate_transcription_quality
ValidateTranscriptionQuality(td) ==
    LET low == IF td.confidence < min_confidence_threshold
               THEN << <<"low_overall_confidence">> >> ELSE <<>>
        n == Len(td.segments)
        low_confidence_segments ==
            CountWhere(td.segments, LAMBDA seg : seg.confidence < min_confidence_threshold)
        timing_issues ==
            CountWhere(td.segments,
                       LAMBDA seg : \/ seg.end - seg.start < min_segment_duration
                                    \/ seg.end - seg.start > max_segment_duration)
        issues == low
                  \o (IF low_confidence_segments * 10 > n * 3
                      THEN << <<"low_confidence_segments">> >> ELSE <<>>)
                  \o (IF timing_issues * 10 > n * 2
                      THEN << <<"segment_timing">> >> ELSE <<>>)
    IN  IF td.segments = <<>>
        THEN [valid |-> FALSE, issues |-> Append(low, <<"no_segments">>)]
        ELSE [valid |-> issues = <<>>, issues |-> issues]

RECURSIVE TranslationIssues(_, _, _)
\* the loop of validate_translation_quality over zip(original, translated)
TranslationIssues(original_segments, translated_segments, i) ==
    IF i > Min(Len(original_segments), Len(translated_segments)) THEN <<>>
    ELSE LET orig_len == Len(original_segments[i].text)
             trans_text == translated_segments[i].text
             too_short == orig_len = 0 \/ Len(trans_text) * 10 < 3 * orig_len
             too_long == orig_len > 0 /\ Len(trans_text) > 3 * orig_len
         IN  (IF too_short THEN << <<"too_short", i - 1>> >>
              ELSE IF too_long THEN << <<"too_long", i - 1>> >> ELSE <<>>)
             \o (IF Strip(trans_text) = <<>> THEN << <<"empty", i - 1>> >> ELSE <<>>)
             \o TranslationIssues(original_segments, translated_segments, i + 1)

\* validate_translation_quality
ValidateTranslationQuality(original_segments, translated_segments) ==
    LET issues == (IF Len(original_segments) # Len(translated_segments)
                   THEN << <<"segment_count">> >> ELSE <<>>)
                  \o TranslationIssues(original_segments, translated_segments, 1)
    IN  [valid |-> issues = <<>>, issues |-> issues]

RECURSIVE TimingIssues(_, _)
\* the loop of validate_subtitle_timing
TimingIssues(segments, i) ==
    IF i > Len(segments) THEN <<>>
    ELSE LET duration == segments[i].end - segments[i].start
             chars == Len(segments[i].text)
             too_fast == duration > 0 /\ chars * 1000 > max_chars_per_second * duration
             too_slow == /\ (duration <= 0 \/ chars * 1000 < min_chars_per_second * duration)
                         /\ chars > 10
         IN  (IF too_fast THEN << <<"too_fast", i - 1>> >>
              ELSE IF too_slow THEN << <<"too_slow", i - 1>> >> ELSE <<>>)
             \o (IF i > 1 /\ segments[i].start < segments[i - 1].end
                 THEN << <<"overlap", i - 1>> >> ELSE <<>>)
             \o TimingIssues(segments, i + 1)

\* validate_subtitle_timing
ValidateSubtitleTiming(segments) ==
    LET issues == TimingIssues(segments, 1)
    IN  [valid |-> issues = <<>>, issues |-> issues]

-----------------------------------------------------------------------------
(* QualityController: confidence metrics and the report.                   *)

\* a timing confidence that is low whatever the duration
LowTimingConfidence(seg) == 500

\* the timing confidence of one segment
SegmentTimingConfidence(seg) ==
    LET duration == seg.end - seg.start
    IN  IF 1000 <= duration /\ duration <= 5000 THEN 900
        ELSE IF 500 <= duration /\ duration <= 8000 THEN 700
        ELSE 500

RECURSIVE SumTimingConfidence(_)
SumTimingConfidence(segments) ==
    IF segments = <<>> THEN 0
    ELSE SegmentTimingConfidence(segments[1]) + SumTimingConfidence(Tail(segments))

\* statistics.mean(timing_confidences) if timing_confidences else 0.5
TimingConfidence(segments) ==
    IF segments = <<>> THEN 500 ELSE SumTimingConfidence(segments) \div Len(segments)

\* overall_confidence of calculate_confidence_metrics: 0.4 transcription +
\* 0.4 translation + 0.2 timing, the mean taken exactly before rounding down
OverallConfidence(td) ==
    LET n == IF td.segments = <<>> THEN 1 ELSE Len(td.segments)
        sum == IF td.segments = <<>> THEN 500 ELSE SumTimingConfidence(td.segments)
    IN  ((td.confidence * 400 + translation_quality * 400) * n + sum * 200) \div (1000 * n)

\* quality_flag of calculate_confidence_metrics
QualityFlag(overall_confidence) ==
    IF overall_confidence >= 900 THEN "EXCELLENT"
    ELSE IF overall_confidence >= 800 THEN "GOOD"
    ELSE IF overall_confidence >= 600 THEN "ACCEPTABLE"
    ELSE IF overall_confidence >= 400 THEN "POOR"
    ELSE "FAILED"

\* calculate_confidence_metrics
CalculateConfidenceMetrics(td) ==
    [transcription_confidence |-> td.confidence,
     translation_confidence |-> translation_quality,
     timing_confidence |-> TimingConfidence(td.segments),
     overall_confidence |-> OverallConfidence(td),
     quality_flag |-> QualityFlag(OverallConfidence(td))]

\* a report label on the thresholds of quality_flag
OverallQualityOfFlag(all_valid, overall_confidence) ==
    IF QualityFlag(overall_confidence) = "EXCELLENT" /\ ~all_valid THEN "GOOD"
    ELSE QualityFlag(overall_confidence)

OverallQualityByConfidence(all_valid, overall_confidence) ==
    IF overall_confidence >= 800 THEN "EXCELLENT"
    ELSE IF overall_confidence >= 600 THEN "GOOD"
    ELSE IF overall_confidence >= 400 THEN "ACCEPTABLE"
    ELSE "POOR"

\* lines 320-327: overall_quality of generate_quality_report
OverallQuality(all_valid, overall_confidence) ==
    IF all_valid /\ overall_confidence >= 800 THEN "EXCELLENT"
    ELSE IF overall_confidence >= 600 THEN "GOOD"
    ELSE IF overall_confidence >= 400 THEN "ACCEPTABLE"
    ELSE "POOR"

\* generate_quality_report
GenerateQualityReportOf(td, translated_segments) ==
    LET trans == ValidateTranscriptionQuality(td)
        transl == ValidateTranslationQuality(td.segments, translated_segments)
        timing == ValidateSubtitleTiming(translated_segments)
        confidence_metrics == CalculateConfidenceMetrics(td)
    IN  [produced |-> TRUE,
         overall_quality |-> OverallQuality(trans.valid /\ transl.valid /\ timing.valid,
                                            confidence_metrics.overall_confidence),
         confidence_metrics |-> confidence_metrics,
         timing_issues |-> timing.issues,
         translation_issues |-> transl.issues,
         recommendations |->
             (IF ~trans.valid THEN <<"better_transcription">> ELSE <<>>)
             \o (IF ~transl.valid THEN <<"check_translation">> ELSE <<>>)
             \o (IF ~timing.valid THEN <<"adjust_segmentation">> ELSE <<>>)
             \o (IF confidence_metrics.overall_confidence < 600
                 THEN <<"manual_review">> ELSE <<>>)]

-----------------------------------------------------------------------------
(* QualityController.generate_quality_report: the runs the model draws.    *)

MaxQualitySegments == 2

TranscriptConfidences == {200, 850, 1000}

TxtLong == <<"a", " ", "l", "o", "n", "g", "e", "r", " ", "s", "e", "n", "t", "e", "n", "c", "e">>

\* (duration, confidence) of an original segment; its text is "there"
OriginalShapes == { <<300, 900>>, <<700, 900>>, <<2000, 500>>, <<2000, 900>>, <<9000, 900>> }

\* (text, duration) of a translated segment
TranslatedShapes ==
    { <<TxtBlank, 2000>>, <<TxtI, 2000>>, <<TxtThere, 2000>>, <<TxtLong, 2000>>,
      <<TxtLong, 200>>, <<TxtLong, 4000>> }

TranslatedGaps == {0 - 100, 0}

InitQuality ==
    /\ IdleWords
    /\ IdleRetry
    /\ IdleUtterance
    /\ IdleSync
    /\ IdleReprocess
    /\ IdleSubtitles
    /\ \E c \in TranscriptConfidences :
         quality_input = [transcript_data |-> [confidence |-> c, segments |-> <<>>],
                          translated_segments |-> <<>>]
    /\ quality_report = NoReport

\* the transcription lists one more segment
AddOriginalSegment ==
    /\ ~quality_report.produced
    /\ Len(quality_input.transcript_data.segments) < MaxQualitySegments
    /\ \E shape \in OriginalShapes :
         LET segs == quality_input.transcript_data.segments
             start == IF segs = <<>> THEN 0 ELSE Last(segs).end
         IN  quality_input' =
                 [quality_input EXCEPT !.transcript_data.segments =
                     Append(@, [text |-> TxtThere, start |-> start, end |-> start + shape[1],
                                confidence |-> shape[2], speaker |-> "A"])]
    /\ UNCHANGED <<quality_report, notQualityVars>>

\* the translation delivers one more segment
AddTranslatedSegment ==
    /\ ~quality_report.produced
    /\ Len(quality_input.translated_segments) < MaxQualitySegments
    /\ \E shape \in TranslatedShapes, gap \in TranslatedGaps :
         LET segs == quality_input.translated_segments
             start == IF segs = <<>> THEN 0 ELSE Last(segs).end + gap
         IN  quality_input' =
                 [quality_input EXCEPT !.translated_segments =
                     Append(@, [text |-> shape[1], start |-> start, end |-> start + shape[2]])]
    /\ UNCHANGED <<quality_report, notQualityVars>>

\* generate_quality_report(transcript_data, translated_segments, ...)
GenerateQualityReport ==
    /\ ~quality_report.produced
    /\ quality_report' = GenerateQualityReportOf(quality_input.transcript_data,
                                                 quality_input.translated_segments)
    /\ UNCHANGED <<quality_input, notQualityVars>>

NextQuality ==
    \/ AddOriginalSegment
    \/ AddTranslatedSegment
    \/ GenerateQualityReport

SpecQuality == InitQuality /\ [][NextQuality]_vars

-----------------------------------------------------------------------------
(* Claims about QualityController.generate_quality_report.                 *)

\* the three validations of the run the report was produced for
AllValidationsPassed ==
    /\ ValidateTranscriptionQuality(quality_input.transcript_data).valid
    /\ ValidateTranslationQuality(quality_input.transcript_data.segments,
                                  quality_input.translated_segments).valid
    /\ ValidateSubtitleTiming(quality_input.translated_segments).valid

\* the overall confidences at and next to the thresholds of the label, with
\* 0.3 and 0.95
ConfidenceLevels == {0, 300, 399, 400, 599, 600, 799, 800, 899, 900, 950, 1000}

\* C10: a report is EXCELLENT only if the transcription, translation and
\* timing validations all passed, however high the confidence; and an overall
\* confidence below 0.4 never gives a label better than POOR.  The last two
\* conjuncts state both of the label selection itself, at every confidence
\* level.
C10_ExcellentNeedsValidations ==
    /\ quality_report.produced =>
          /\ quality_report.overall_quality = "EXCELLENT" => AllValidationsPassed
          /\ quality_report.confidence_metrics.overall_confidence < 400 =>
                quality_report.overall_quality = "POOR"
    /\ \A c \in ConfidenceLevels : OverallQuality(FALSE, c) # "EXCELLENT"
    /\ \A c \in ConfidenceLevels, v \in BOOLEAN :
          c < 400 => OverallQuality(v, c) = "POOR"

\* a report whose overall confidence is above 0.8 and whose translation
\* validation failed: it is GOOD, not EXCELLENT
C10_HighConfidenceFailedValidation ==
    /\ quality_report.produced
    /\ quality_report.confidence_metrics.overall_confidence >= 800
    /\ ~AllValidationsPassed
    /\ quality_report.translation_issues # <<>>
    /\ quality_report.overall_quality = "GOOD"

\* the label of the thresholds 0.9, 0.8, 0.6, 0.4
FlagLabel(c) ==
    IF c >= 900 THEN "EXCELLENT" ELSE IF c >= 800 THEN "GOOD"
    ELSE IF c >= 600 THEN "ACCEPTABLE" ELSE IF c >= 400 THEN "POOR" ELSE "FAILED"

\* the label of the thresholds 0.8, 0.6, 0.4, EXCELLENT only with all the
\* validations passed
ReportLabel(all_valid, c) ==
    IF c >= 800 /\ all_valid THEN "EXCELLENT" ELSE IF c >= 600 THEN "GOOD"
    ELSE IF c >= 400 THEN "ACCEPTABLE" ELSE "POOR"

\* C17 as stated: the quality label of the confidence metrics has the
\* thresholds >= 0.9 EXCELLENT, >= 0.8 GOOD, >= 0.6 ACCEPTABLE, >= 0.4 POOR,
\* else FAILED, and the report's overall_quality follows the same thresholds,
\* EXCELLENT only when all three validations passed.
C17_ReportFollowsFlagThresholds ==
    quality_report.produced =>
        LET c == quality_report.confidence_metrics.overall_confidence
        IN  /\ quality_report.confidence_metrics.quality_flag = FlagLabel(c)
            /\ \/ quality_report.overall_quality = FlagLabel(c)
               \/ /\ FlagLabel(c) = "EXCELLENT"
                  /\ ~AllValidationsPassed
                  /\ quality_report.overall_quality # "EXCELLENT"

\* C17 amended: the quality label of the confidence metrics has the
\* thresholds 0.9, 0.8, 0.6, 0.4 (EXCELLENT, GOOD, ACCEPTABLE, POOR, else
\* FAILED); the report's overall_quality has thresholds of its own: EXCELLENT
\* from 0.8 when all three validations passed, else GOOD from 0.6, ACCEPTABLE
\* from 0.4, POOR below, never FAILED.  The last conjunct states the report's
\* label selection at every confidence level.
C17_ReportHasOwnThresholds ==
    /\ quality_report.produced =>
          LET c == quality_report.confidence_metrics.overall_confidence
          IN  /\ quality_report.confidence_metrics.quality_flag = FlagLabel(c)
              /\ quality_report.overall_quality = ReportLabel(AllValidationsPassed, c)
    /\ \A c \in ConfidenceLevels, v \in BOOLEAN :
          /\ QualityFlag(c) = FlagLabel(c)
          /\ OverallQuality(v, c) = ReportLabel(v, c)

\* C17 witness (Scenario E): all validations passed with an overall
\* confidence between 0.8 and 0.9: the report is EXCELLENT, the metrics' flag
\* is GOOD.
C17_ExcellentBelowNineTenths ==
    /\ quality_report.produced
    /\ AllValidationsPassed
    /\ quality_report.confidence_metrics.overall_confidence >= 800
    /\ quality_report.confidence_metrics.overall_confidence < 900
    /\ quality_report.overall_quality = "EXCELLENT"
    /\ quality_report.confidence_metrics.quality_flag = "GOOD"

\* the run of Scenario E: transcription confidence 0.85, every segment between
\* 0.5 s and 8 s long (the durations that count 0.7 or 0.9 towards the timing
\* confidence), every translated text within a fifth of its original's length,
\* and the three validations passed
ScenarioE ==
    LET td == quality_input.transcript_data
        translated == quality_input.translated_segments
    IN  /\ td.confidence = 850
        /\ \A i \in 1..Len(td.segments) :
              /\ td.segments[i].end - td.segments[i].start >= 500
              /\ td.segments[i].end - td.segments[i].start <= 8000
        /\ Len(translated) = Len(td.segments)
        /\ \A i \in 1..Len(translated) :
              /\ Len(translated[i].text) * 10 >= Len(td.segments[i].text) * 8
              /\ Len(translated[i].text) * 10 <= Len(td.segments[i].text) * 12
        /\ AllValidationsPassed

Range(xs) == {xs[i] : i \in 1..Len(xs)}

\* C20: generate_quality_report returns a report whatever the validations
\* found, and the issues of each failed validation, transcription, translation
\* and timing alike, are among the issues of that report.
C20_IssuesOfFailedValidationsRecorded ==
    quality_report.produced =>
        LET td == quality_input.transcript_data
            translated_segments == quality_input.translated_segments
            recorded == Range(quality_report.timing_issues)
                        \cup Range(quality_report.translation_issues)
        IN  /\ Range(ValidateTranscriptionQuality(td).issues) \subseteq recorded
            /\ Range(ValidateTranslationQuality(td.segments, translated_segments).issues)
                   \subseteq recorded
            /\ Range(ValidateSubtitleTiming(translated_segments).issues) \subseteq recorded

-----------------------------------------------------------------------------
(* SegmentReprocessor (services/retry_manager.py): configuration and the   *)
(* timelines the model draws.                                              *)

\* identify_problematic_segments
ProblemConfidence == 600

TooShortSegment == 300

TooLongSegment == 15000

\* segment['confidence'] = min(confidence + 0.2, 1.0)
ConfidenceBonus == 200

\* the longest timeline handed in
MaxReprocessSegments == 2

\* confidence_threshold: the default 0.6 and a stricter caller's 0.95
ReprocessThresholds == {600, 950}

\* max_retries of the manager the reprocessor was built with
ReprocessRetries == {0, 1}

\* (confidence, text, duration, gap to the entry before) of an entry: unsure;
\* sure; sure but 0.2 s long; unsure without text; sure but starting before
\* the entry before it ends
ReprocessShapes ==
    { <<400, TxtHej, 2000, 100>>,
      <<900, TxtHej, 2000, 100>>,
      <<900, TxtHej, 200, 100>>,
      <<400, <<>>, 2000, 100>>,
      <<900, TxtHej, 2000, 0 - 500>> }

ReprocessEntry(shape, prev_end) ==
    [text |-> shape[2], start |-> Max(0, prev_end + shape[4]),
     end |-> Max(0, prev_end + shape[4]) + shape[3], confidence |-> shape[1],
     reprocessed |-> FALSE, original_confidence |-> 0 - 1, reprocessing_failed |-> FALSE]

\* the call record execute_with_retry starts with (lines 68-77)
NewCall(operation_name) ==
    [pc |-> "ATTEMPTING", operation_name |-> operation_name, attempt |-> 0,
     retry_count |-> 0, last_exception |-> NoException, outcome |-> NotFinished,
     delay |-> 0, waits |-> 0]

-----------------------------------------------------------------------------
(* SegmentReprocessor: the functions.                                      *)

\* the issues identify_problematic_segments finds for segments[i]
SegmentIssues(segs, i) ==
    LET segment == segs[i]
        duration == segment.end - segment.start
    IN  (IF segment.confidence < ProblemConfidence THEN {"low_confidence"} ELSE {})
        \cup (IF duration < TooShortSegment THEN {"too_short"}
              ELSE IF duration > TooLongSegment THEN {"too_long"} ELSE {})
        \cup (IF Strip(segment.text) = <<>> THEN {"empty_text"}
              ELSE IF Len(segment.text) < 3 THEN {"very_short_text"} ELSE {})
        \cup (IF i > 1 /\ segment.start < segs[i - 1].end THEN {"timing_overlap"} ELSE {})

\* identify_problematic_segments: the indices it returns, counted from 1
IdentifyProblematicSegments(segs) ==
    {i \in 1..Len(segs) : SegmentIssues(segs, i) # {}}

\* a test that sends every problematic entry to the translation
NeedsRetranslationIfProblematic(segs, i, threshold) ==
    i \in IdentifyProblematicSegments(segs)

\* lines 383-391: the entry is sent to the translation
NeedsRetranslation(segs, i, threshold) ==
    /\ segs[i].confidence < threshold
    /\ segs[i].text # <<>>

\* a success that leaves the confidence as it was
RetranslatedKeepingConfidence(segment, retranslated) ==
    [segment EXCEPT !.text = retranslated.result.text,
                    !.reprocessed = TRUE,
                    !.original_confidence = segment.confidence]

\* lines 402-405: the entry after a successful retranslation
Retranslated(segment, retranslated) ==
    [segment EXCEPT !.text = retranslated.result.text,
                    !.reprocessed = TRUE,
                    !.original_confidence = segment.confidence,
                    !.confidence = Min(segment.confidence + ConfidenceBonus, 1000)]

\* lines 407-409: the entry after execute_with_retry raised
ReprocessingFailed(segment) == [segment EXCEPT !.reprocessing_failed = TRUE]

-----------------------------------------------------------------------------
(* SegmentReprocessor.reprocess_low_confidence_segments, one entry after   *)
(* the other; the retranslation of an entry is one execute_with_retry call *)
(* on the reprocessor's RetryManager.                                      *)

InitReprocess ==
    /\ IdleWords
    /\ IdleUtterance
    /\ IdleSync
    /\ IdleQuality
    /\ IdleSubtitles
    /\ max_retries \in ReprocessRetries
    /\ base_delay = DefaultBaseDelay
    /\ max_delay = DefaultMaxDelay
    /\ exponential_backoff = TRUE
    /\ retry_history = <<>>
    /\ calls = <<>>
    /\ segments_to_reprocess = <<>>
    /\ reprocessed_segments = <<>>
    /\ \E t \in ReprocessThresholds :
         reprocess = [pc |-> "receiving", confidence_threshold |-> t]

\* the timeline to reprocess lists one more entry
AddReprocessSegment ==
    /\ reprocess.pc = "receiving"
    /\ Len(segments_to_reprocess) < MaxReprocessSegments
    /\ \E shape \in ReprocessShapes :
         segments_to_reprocess' =
             Append(segments_to_reprocess,
                    ReprocessEntry(shape, IF segments_to_reprocess = <<>> THEN 0
                                          ELSE Last(segments_to_reprocess).end))
    /\ UNCHANGED <<reprocessed_segments, reprocess, retryVars, notReprocessVars>>

\* reprocess_low_confidence_segments is called (line 380)
CallReprocess ==
    /\ reprocess.pc = "receiving"
    /\ reprocess' = [reprocess EXCEPT !.pc = "scanning"]
    /\ UNCHANGED <<segments_to_reprocess, reprocessed_segments, retryVars, notReprocessVars>>

\* lines 382-398, 411: the next entry is appended as it is, or its
\* retranslation is started
ReprocessSegment ==
    /\ reprocess.pc = "scanning"
    /\ Len(reprocessed_segments) < Len(segments_to_reprocess)
    /\ LET i == Len(reprocessed_segments) + 1
       IN  IF NeedsRetranslation(segments_to_reprocess, i, reprocess.confidence_threshold)
           THEN /\ calls' = Append(calls, NewCall("segment_retranslation"))
                /\ reprocess' = [reprocess EXCEPT !.pc = "awaiting"]
                /\ UNCHANGED reprocessed_segments
           ELSE /\ reprocessed_segments' =
                       Append(reprocessed_segments, segments_to_reprocess[i])
                /\ UNCHANGED <<calls, reprocess>>
    /\ UNCHANGED <<segments_to_reprocess, configVars, retry_history, notReprocessVars>>

\* the steps of the execute_with_retry call being awaited
RetranslationStep ==
    /\ reprocess.pc = "awaiting"
    /\ LET c == Len(calls)
       IN  \/ \E result \in Results(calls[c].operation_name) : OperationReturns(c, result)
           \/ OperationRaises(c)
           \/ WakeUp(c)

\* lines 402-405, 411: execute_with_retry returned (result, retry_count)
RetranslationReturns ==
    /\ reprocess.pc = "awaiting"
    /\ calls[Len(calls)].pc = "SUCCESS"
    /\ LET i == Len(reprocessed_segments) + 1
       IN  reprocessed_segments' =
               Append(reprocessed_segments,
                      Retranslated(segments_to_reprocess[i], calls[Len(calls)].outcome))
    /\ reprocess' = [reprocess EXCEPT !.pc = "scanning"]
    /\ UNCHANGED <<segments_to_reprocess, retryVars, notReprocessVars>>

\* lines 407-411: execute_with_retry raised after its last attempt
RetranslationRaises ==
    /\ reprocess.pc = "awaiting"
    /\ calls[Len(calls)].pc = "EXHAUSTED"
    /\ LET i == Len(reprocessed_segments) + 1
       IN  reprocessed_segments' =
               Append(reprocessed_segments, ReprocessingFailed(segments_to_reprocess[i]))
    /\ reprocess' = [reprocess EXCEPT !.pc = "scanning"]
    /\ UNCHANGED <<segments_to_reprocess, retryVars, notReprocessVars>>

\* line 413
ReturnReprocessed ==
    /\ reprocess.pc = "scanning"
    /\ Len(reprocessed_segments) = Len(segments_to_reprocess)
    /\ reprocess' = [reprocess EXCEPT !.pc = "returned"]
    /\ UNCHANGED <<segments_to_reprocess, reprocessed_segments, retryVars, notReprocessVars>>

NextReprocess ==
    \/ AddReprocessSegment
    \/ CallReprocess
    \/ ReprocessSegment
    \/ RetranslationStep
    \/ RetranslationReturns
    \/ RetranslationRaises
    \/ ReturnReprocessed

SpecReprocess == InitReprocess /\ [][NextReprocess]_vars

-----------------------------------------------------------------------------
(* Claims about the SegmentReprocessor.                                    *)

ReprocessReturned == reprocess.pc = "returned"

\* the translation was called for entry i of the timeline
TranslationCalledFor(i) ==
    reprocessed_segments[i].reprocessed \/ reprocessed_segments[i].reprocessing_failed

\* C18 as stated: the translation is called for an entry exactly when the
\* entry is problematic (low confidence, duration outside [0.3 s, 15 s],
\* empty text, or a start before the previous entry's end); the other entries
\* are returned unchanged, in their position.
C18_CalledIffProblematic ==
    ReprocessReturned =>
        /\ Len(reprocessed_segments) = Len(segments_to_reprocess)
        /\ \A i \in 1..Len(segments_to_reprocess) :
              /\ TranslationCalledFor(i) <=>
                     i \in IdentifyProblematicSegments(segments_to_reprocess)
              /\ ~TranslationCalledFor(i) =>
                     reprocessed_segments[i] = segments_to_reprocess[i]

\* C18 amended: the translation is called for an entry exactly when its
\* confidence is below confidence_threshold and its text is not empty; with
\* the default threshold every such entry is problematic.  The other
\* entries, problematic or not, cause no call and are returned unchanged, in
\* their position; there is one execute_with_retry call per entry sent.
C18_CalledIffLowConfidenceWithText ==
    ReprocessReturned =>
        /\ Len(reprocessed_segments) = Len(segments_to_reprocess)
        /\ \A i \in 1..Len(segments_to_reprocess) :
              /\ TranslationCalledFor(i) <=>
                     /\ segments_to_reprocess[i].confidence < reprocess.confidence_threshold
                     /\ segments_to_reprocess[i].text # <<>>
              /\ (TranslationCalledFor(i) /\ reprocess.confidence_threshold <= ProblemConfidence)
                     => i \in IdentifyProblematicSegments(segments_to_reprocess)
              /\ ~TranslationCalledFor(i) =>
                     reprocessed_segments[i] = segments_to_reprocess[i]
        /\ Len(calls) = Cardinality({i \in 1..Len(segments_to_reprocess) :
                                        TranslationCalledFor(i)})

\* C18 witness: a timeline of an unsure entry and a sure entry of 0.2 s was
\* returned: the first was retranslated, the second, though problematic, was
\* not sent and came back unchanged.
C18_ShortEntryNotSent ==
    /\ ReprocessReturned
    /\ Len(segments_to_reprocess) = 2
    /\ TranslationCalledFor(1)
    /\ ~TranslationCalledFor(2)
    /\ 2 \in IdentifyProblematicSegments(segments_to_reprocess)
    /\ reprocessed_segments[2] = segments_to_reprocess[2]

\* the records retry_history holds for the call made for entry i
CallOfEntry(i) ==
    Cardinality({j \in 1..i : TranslationCalledFor(j)})

\* C19: an entry whose retranslation succeeded has the confidence
\* min(old + 0.2, 1.0) and the new translation as its text; an entry whose
\* retranslation exhausted its retries is flagged reprocessing_failed with
\* text and confidence unchanged; the error does not stop the loop: every
\* entry is returned, in the order of the input.
C19_RetranslatedOrFlagged ==
    ReprocessReturned =>
        /\ Len(reprocessed_segments) = Len(segments_to_reprocess)
        /\ \A i \in 1..Len(segments_to_reprocess) :
              LET old == segments_to_reprocess[i]
                  new == reprocessed_segments[i]
              IN  /\ new.start = old.start /\ new.end = old.end
                  /\ ~(new.reprocessed /\ new.reprocessing_failed)
                  /\ new.reprocessed =>
                        /\ calls[CallOfEntry(i)].pc = "SUCCESS"
                        /\ new.confidence = Min(old.confidence + ConfidenceBonus, 1000)
                        /\ new.text = calls[CallOfEntry(i)].outcome.result.text
                        /\ new.original_confidence = old.confidence
                  /\ new.reprocessing_failed =>
                        /\ calls[CallOfEntry(i)].pc = "EXHAUSTED"
                        /\ new.text = old.text
                        /\ new.confidence = old.confidence

\* C19 witness: the first entry's retranslation was given up after two
\* attempts and the entry flagged; the second entry, of confidence 0.9 under
\* a threshold of 0.95, was still retranslated, to confidence 1.0.
C19_FailedThenRetranslated ==
    /\ ReprocessReturned
    /\ Len(reprocessed_segments) = 2
    /\ reprocessed_segments[1].reprocessing_failed
    /\ calls[1].retry_count = 2
    /\ reprocessed_segments[2].reprocessed
    /\ segments_to_reprocess[2].confidence = 900
    /\ reprocessed_segments[2].confidence = 1000
    /\ reprocessed_segments[2].text = TxtOk

-----------------------------------------------------------------------------
(* SubtitleGenerator._align_translation_with_segments.  The translated     *)
(* text gives one sentence per segment (_redistribute_text makes it so     *)
(* when the sentence count differs), so every segment becomes a cue; the   *)
(* cue texts play no part in the timing and are left out.                  *)

\* lines 90, 95: the minimum display time and the pause kept before the next
\* segment, in milliseconds
min_duration == 1500

NextSegmentPause == 300

MaxCueSegments == 3

\* how long a segment handed to the generator lasts, and how long after its
\* end the next one starts
CueDurations == {200, 500, 1000, 2000}

CueGaps == {0, 100, 500, 2000}

\* lines 85-104: the cue of segments[i]
AlignedCue(segs, i) ==
    LET start_time == segs[i].start
        end_time == segs[i].end
    IN  [start |-> start_time,
         end |-> IF end_time - start_time < min_duration
                 THEN IF i < Len(segs)
                      THEN Min(start_time + min_duration,
                               segs[i + 1].start - NextSegmentPause)
                      ELSE start_time + min_duration
                 ELSE end_time]

\* _align_translation_with_segments
AlignTranslationWithSegments(segs) == [i \in 1..Len(segs) |-> AlignedCue(segs, i)]

InitSubtitles ==
    /\ IdleWords
    /\ IdleRetry
    /\ IdleUtterance
    /\ IdleSync
    /\ IdleQuality
    /\ IdleReprocess
    /\ generator_segments = <<>>
    /\ aligned_segments = <<>>
    /\ alignment = "receiving"

\* the timeline handed to the generator lists one more segment, in time order
AddCueSegment ==
    /\ alignment = "receiving"
    /\ Len(generator_segments) < MaxCueSegments
    /\ \E duration \in CueDurations, gap \in CueGaps :
         LET start == IF generator_segments = <<>> THEN 0
                      ELSE Last(generator_segments).end + gap
         IN  generator_segments' =
                 Append(generator_segments, [start |-> start, end |-> start + duration])
    /\ UNCHANGED <<aligned_segments, alignment, notSubtitleVars>>

\* lines 81-106
AlignTranslation ==
    /\ alignment = "receiving"
    /\ aligned_segments' = AlignTranslationWithSegments(generator_segments)
    /\ alignment' = "aligned"
    /\ UNCHANGED <<generator_segments, notSubtitleVars>>

NextSubtitles ==
    \/ AddCueSegment
    \/ AlignTranslation

SpecSubtitles == InitSubtitles /\ [][NextSubtitles]_vars

-----------------------------------------------------------------------------
(* Claims about SubtitleGenerator._align_translation_with_segments.        *)

\* C30: every aligned cue ends strictly after it starts, not before its
\* segment's original end and not after the next segment's start, for every
\* time-ordered list of segments, a short segment whose successor starts less
\* than 0.3 s after it included.
C30_CuesKeepValidSpan ==
    alignment = "aligned" =>
        \A i \in 1..Len(aligned_segments) :
            /\ aligned_segments[i].end > aligned_segments[i].start
            /\ aligned_segments[i].end >= generator_segments[i].end
            /\ i < Len(aligned_segments) =>
                  aligned_segments[i].end <= generator_segments[i + 1].start

====
